---- MODULE Spec2Model ----
(***************************************************************************)
(* The TimeCapsule ledger contract (contracts/contracts/TimeCapsule.sol)   *)
(* as a state machine: one action per external function, a revert being a  *)
(* step that changes nothing but the recorded outcome of the call; and the  *)
(* browser client around it: the capsule creation hook, the reveal service *)
(* with its public index, and the IPFS service with its local cache.       *)
(***************************************************************************)
EXTENDS Integers, Sequences, FiniteSets, TLC

\* ------------------------------------------------------------------ bounds
\* Number of capsules the model creates.
MaxCapsules == 2
\* Seconds the clock runs past DeployTime + MIN_LOCK_DURATION.
MaxDrift == 1
\* block.timestamp of the deployment block.
DeployTime == 1700000000

\* ------------------------------------------------------- program constants
MIN_LOCK_DURATION == 86400
MAX_LOCK_DURATION == 315360000
\* 0.001 ether, counted in gwei (the model's unit of value).
InitialProtocolFee == 1000000

CapsuleType == {"RAW_TEXT", "HASH_ONLY", "ENCRYPTED"}
CapsuleStatus == <<"LOCKED", "UNLOCKED", "REVEALED">>

\* Position of a status in the enum (LOCKED = 0, UNLOCKED = 1, REVEALED = 2).
StatusRank(s) == CHOOSE i \in 0..2 : CapsuleStatus[i + 1] = s

\* ------------------------------------------------------------------ inputs
\* Three externally owned accounts: 0x..1a, 0x..b2, 0x..3c.
ACCOUNTS == <<26, 178, 60>>
User1 == ACCOUNTS[1]
User2 == ACCOUNTS[2]
User3 == ACCOUNTS[3]
Address == {User1, User2, User3}

\* keccak256 as a collision-free digest: the digest of x is a value that names
\* its preimage and is never equal to x itself.
keccak256(x) == <<"keccak256", x>>

HexAlphabet == "0123456789abcdef"
UpperHexAlphabet == "0123456789ABCDEF"

RECURSIVE ShiftRightBytes(_, _)
ShiftRightBytes(value, n) ==
    IF n = 0 \/ value = 0 THEN value ELSE ShiftRightBytes(value \div 256, n - 1)

\* value[i + 12] of bytes32(uint256(uint160(addr))): byte i of the 20-byte address,
\* most significant first.
AddressByte(addr, i) == ShiftRightBytes(addr, 19 - i) % 256

RECURSIVE HexOfBytes(_, _, _)
HexOfBytes(addr, i, alphabet) ==
    IF i = 20 THEN ""
    ELSE SubSeq(alphabet, (AddressByte(addr, i) \div 16) + 1, (AddressByte(addr, i) \div 16) + 1)
         \o SubSeq(alphabet, (AddressByte(addr, i) % 16) + 1, (AddressByte(addr, i) % 16) + 1)
         \o HexOfBytes(addr, i + 1, alphabet)

_addressToString(addr) == "0x" \o HexOfBytes(addr, 0, HexAlphabet)

\* The same address as a wallet shows it, with upper-case hex letters.
MixedCaseString(addr) == "0x" \o HexOfBytes(addr, 0, UpperHexAlphabet)

_compareStrings(a, b) == keccak256(a) = keccak256(b)

\* The strings of a recipient list that name the account addr, in either case.
NamesAccount(str, addr) == str = _addressToString(addr) \/ str = MixedCaseString(addr)

\* plaintextOrKey of revealCapsule, and the finalContentRef it may supply.
KeyInputs == {"key-a", "key-b"}
RefInputs == {"", "QmFinal"}
\* msg.value of createCapsule.
FeeInputs == {0, InitialProtocolFee}
RecipientInputs == {<<>>, <<_addressToString(User2), MixedCaseString(User3)>>}
\* Lock durations at and around both ends of the window.
WindowLocks == {MIN_LOCK_DURATION - 1, MIN_LOCK_DURATION,
                MAX_LOCK_DURATION, MAX_LOCK_DURATION + 1}

\* The createCapsule calls of the model, unlockTime given as a duration from the
\* block time: User2 commits hash-only capsules at the ends of the lock window,
\* User1 encrypted capsules of the shortest accepted lock, with each recipient list
\* and visibility.
CreateInputs ==
    {[sender |-> User2, capsuleType |-> "HASH_ONLY", contentHash |-> keccak256("key-b"),
      contentRef |-> "", lock |-> l, recipients |-> <<>>, isPublic |-> FALSE] :
        l \in WindowLocks}
    \cup
    {[sender |-> User1, capsuleType |-> "ENCRYPTED", contentHash |-> keccak256("key-a"),
      contentRef |-> "QmSealed", lock |-> MIN_LOCK_DURATION + 1,
      recipients |-> r, isPublic |-> p] : r \in RecipientInputs, p \in BOOLEAN}

\* ------------------------------------------------------------------- state
VARIABLES
    now,              \* block.timestamp
    _capsuleCounter,
    _capsules,        \* capsuleId -> CapsuleMeta, for 1.._capsuleCounter
    _userCapsules,    \* address -> sequence of capsule ids
    protocolFee,
    treasury,
    last,             \* outcome of the latest call at the current block time
    created,          \* history: number of createCapsule calls that returned
    refWrites,        \* history: capsuleId -> number of writes to contentRef after creation
    localStorage,     \* the browser's localStorage: key -> stored value
    dateNow,          \* Date.now(), in milliseconds since the page was first opened
    calls,            \* the revealService calls in flight: slot -> call
    pinataJWT,        \* IPFSService.pinataJWT, "" when VITE_PINATA_JWT is not set
    dialog,           \* the reveal dialog (EarlyRevealModal): its React state
    ipfs              \* the ipfsService calls: the uploads that returned, the download

\* The state of the browser client.
browser == <<localStorage, dateNow, calls, pinataJWT, ipfs, dialog>>

vars == <<now, _capsuleCounter, _capsules, _userCapsules, protocolFee, treasury,
          last, created, refWrites, browser>>

ledger == <<_capsuleCounter, _capsules, _userCapsules, protocolFee, treasury>>

\* The outcome of a call: the function, the error it reverted with ("ok" when it
\* returned), the value it returned (0 when it returns none) and the event it
\* emitted (<<>> when none; a revert emits none).
Outcome(op, err, ret, log) == [op |-> op, err |-> err, ret |-> ret, log |-> log]

Reverted(op, err) == Outcome(op, err, 0, <<>>)

NoCall == Outcome("none", "ok", 0, <<>>)

Init ==
    /\ now = DeployTime
    /\ _capsuleCounter = 0
    /\ _capsules = <<>>
    /\ _userCapsules = [a \in Address |-> <<>>]
    /\ protocolFee = InitialProtocolFee
    /\ treasury = User3
    /\ last = NoCall
    /\ created = 0
    /\ refWrites = <<>>

\* --------------------------------------------------------------- modifiers
validCapsule(capsuleId) == ~(capsuleId = 0 \/ capsuleId > _capsuleCounter)

onlyUnlocked_CreatedAt(capsuleId) == ~(now < _capsules[capsuleId].createdAt)

onlyUnlocked(capsuleId) == ~(now < _capsules[capsuleId].unlockTime)

\* string memory userStr = _addressToString(user), for each account of the model.
UserStr == [user \in Address |-> _addressToString(user)]

RECURSIVE RecipientMatch(_, _, _)
RecipientMatch(recipients, userStr, i) ==
    IF i > Len(recipients) THEN FALSE
    ELSE IF _compareStrings(recipients[i], userStr) THEN TRUE
    ELSE RecipientMatch(recipients, userStr, i + 1)

_canAccessCapsule_Or(capsuleId, user) ==
    LET capsule == _capsules[capsuleId] IN
    IF capsule.owner = user THEN TRUE
    ELSE IF RecipientMatch(capsule.recipients, UserStr[user], 1) THEN TRUE
    ELSE IF capsule.isPublic \/ now >= capsule.unlockTime THEN TRUE
    ELSE FALSE

_canAccessCapsule(capsuleId, user) ==
    LET capsule == _capsules[capsuleId] IN
    IF capsule.owner = user THEN TRUE
    ELSE IF RecipientMatch(capsule.recipients, UserStr[user], 1) THEN TRUE
    ELSE IF capsule.isPublic /\ now >= capsule.unlockTime THEN TRUE
    ELSE FALSE

\* A call that reverts: every write is rolled back, only the outcome is observed.
Revert(op, err) ==
    /\ last' = Reverted(op, err)
    /\ UNCHANGED <<now, ledger, created, refWrites>>

\* ----------------------------------------------------------- createCapsule
InvalidUnlockTime_NoMinimum(unlockTime, currentTime) ==
    \/ unlockTime <= currentTime
    \/ unlockTime > currentTime + MAX_LOCK_DURATION

InvalidUnlockTime(unlockTime, currentTime) ==
    \/ unlockTime <= currentTime + MIN_LOCK_DURATION
    \/ unlockTime > currentTime + MAX_LOCK_DURATION

\* The error createCapsule reverts with, "ok" when it returns.
createCapsuleErr(value, unlockTime) ==
    LET currentTime == now IN
    IF InvalidUnlockTime(unlockTime, currentTime) THEN "InvalidUnlockTime"
    ELSE IF value < protocolFee THEN "InsufficientFee"
    ELSE "ok"

NewCapsule_Unlocked(sender, currentTime, capsuleType, contentHash, contentRef, unlockTime, recipients, isPublic) ==
    [owner |-> sender, createdAt |-> currentTime, unlockTime |-> unlockTime,
     capsuleType |-> capsuleType, status |-> "UNLOCKED", contentHash |-> contentHash,
     contentRef |-> contentRef, recipients |-> recipients, isPublic |-> isPublic]

NewCapsule(sender, currentTime, capsuleType, contentHash, contentRef, unlockTime, recipients, isPublic) ==
    [owner |-> sender, createdAt |-> currentTime, unlockTime |-> unlockTime,
     capsuleType |-> capsuleType, status |-> "LOCKED", contentHash |-> contentHash,
     contentRef |-> contentRef, recipients |-> recipients, isPublic |-> isPublic]

CapsuleCreated(capsuleId, owner, unlockTime, capsuleType, contentHash) ==
    <<"CapsuleCreated", capsuleId, owner, unlockTime, capsuleType, contentHash>>

createCapsule(sender, value, capsuleType, contentHash, contentRef, unlockTime, recipients, isPublic) ==
    LET currentTime == now
        err == createCapsuleErr(value, unlockTime)
        capsuleId == _capsuleCounter + 1
    IN
    /\ _capsuleCounter < MaxCapsules
    /\ IF err # "ok" THEN Revert("createCapsule", err)
       ELSE /\ _capsuleCounter' = capsuleId
            /\ _capsules' = Append(_capsules,
                   NewCapsule(sender, currentTime, capsuleType, contentHash, contentRef,
                              unlockTime, recipients, isPublic))
            /\ _userCapsules' = [_userCapsules EXCEPT ![sender] = Append(@, capsuleId)]
            /\ last' = Outcome("createCapsule", "ok", capsuleId,
                   CapsuleCreated(capsuleId, sender, unlockTime, capsuleType, contentHash))
            /\ created' = created + 1
            /\ refWrites' = Append(refWrites, 0)
            /\ UNCHANGED <<now, protocolFee, treasury>>

\* ----------------------------------------------------------- revealCapsule
\* bytes32 computedHash = keccak256(plaintextOrKey)
computedHash(plaintextOrKey) == keccak256(plaintextOrKey)

revealCapsuleErr_NoHashCheck(sender, capsuleId, plaintextOrKey) ==
    IF ~validCapsule(capsuleId) THEN "CapsuleNotFound"
    ELSE IF ~onlyUnlocked(capsuleId) THEN "CapsuleStillLocked"
    ELSE IF ~_canAccessCapsule(capsuleId, sender) THEN "UnauthorizedAccess"
    ELSE IF _capsules[capsuleId].status = "REVEALED" THEN "CapsuleAlreadyRevealed"
    ELSE "ok"

\* The error revealCapsule reverts with, "ok" when it returns.
revealCapsuleErr(sender, capsuleId, plaintextOrKey) ==
    IF ~validCapsule(capsuleId) THEN "CapsuleNotFound"
    ELSE IF ~onlyUnlocked(capsuleId) THEN "CapsuleStillLocked"
    ELSE IF ~_canAccessCapsule(capsuleId, sender) THEN "UnauthorizedAccess"
    ELSE IF _capsules[capsuleId].status = "REVEALED" THEN "CapsuleAlreadyRevealed"
    ELSE IF computedHash(plaintextOrKey) # _capsules[capsuleId].contentHash
      THEN "HashMismatch"
    ELSE "ok"

WritesContentRef_Always(finalContentRef) == TRUE

\* if (bytes(finalContentRef).length > 0)
WritesContentRef(finalContentRef) == Len(finalContentRef) > 0

RevealedCapsule_Rehash(capsule, finalContentRef) ==
    [capsule EXCEPT !.status = "REVEALED",
                    !.contentHash = IF WritesContentRef(finalContentRef)
                                      THEN keccak256(finalContentRef) ELSE @,
                    !.contentRef = IF WritesContentRef(finalContentRef)
                                     THEN finalContentRef ELSE @]

RevealedCapsule(capsule, finalContentRef) ==
    [capsule EXCEPT !.status = "REVEALED",
                    !.contentRef = IF WritesContentRef(finalContentRef)
                                     THEN finalContentRef ELSE @]

CapsuleRevealed(capsuleId, revealer, finalContentRef) ==
    <<"CapsuleRevealed", capsuleId, revealer, finalContentRef>>

revealCapsule(sender, capsuleId, plaintextOrKey, finalContentRef) ==
    LET err == revealCapsuleErr(sender, capsuleId, plaintextOrKey) IN
    IF err # "ok" THEN Revert("revealCapsule", err)
    ELSE /\ _capsules' = [_capsules EXCEPT
                             ![capsuleId] = RevealedCapsule(@, finalContentRef)]
         /\ refWrites' = [refWrites EXCEPT
                             ![capsuleId] = IF WritesContentRef(finalContentRef)
                                              THEN @ + 1 ELSE @]
         /\ last' = Outcome("revealCapsule", "ok", 0,
                            CapsuleRevealed(capsuleId, sender, finalContentRef))
         /\ UNCHANGED <<now, _capsuleCounter, _userCapsules, protocolFee, treasury, created>>

\* ----------------------------------------------------------- unlockCapsule
unlockCapsuleErr_Strict(sender, capsuleId) ==
    IF ~validCapsule(capsuleId) THEN "CapsuleNotFound"
    ELSE IF ~onlyUnlocked(capsuleId) THEN "CapsuleStillLocked"
    ELSE IF ~_canAccessCapsule(capsuleId, sender) THEN "UnauthorizedAccess"
    ELSE IF _capsules[capsuleId].status # "LOCKED" THEN "CapsuleAlreadyRevealed"
    ELSE "ok"

\* The error unlockCapsule reverts with, "ok" when it returns.
unlockCapsuleErr(sender, capsuleId) ==
    IF ~validCapsule(capsuleId) THEN "CapsuleNotFound"
    ELSE IF ~onlyUnlocked(capsuleId) THEN "CapsuleStillLocked"
    ELSE IF ~_canAccessCapsule(capsuleId, sender) THEN "UnauthorizedAccess"
    ELSE "ok"

UnlockedCapsule_Always(capsule) == [capsule EXCEPT !.status = "UNLOCKED"]

UnlockedCapsule(capsule) ==
    IF capsule.status = "LOCKED" THEN [capsule EXCEPT !.status = "UNLOCKED"] ELSE capsule

CapsuleUnlocked(capsuleId, unlocker) == <<"CapsuleUnlocked", capsuleId, unlocker>>

unlockCapsule(sender, capsuleId) ==
    LET err == unlockCapsuleErr(sender, capsuleId) IN
    IF err # "ok" THEN Revert("unlockCapsule", err)
    ELSE /\ _capsules' = [_capsules EXCEPT ![capsuleId] = UnlockedCapsule(@)]
         /\ last' = Outcome("unlockCapsule", "ok", 0,
                            IF _capsules[capsuleId].status = "LOCKED"
                              THEN CapsuleUnlocked(capsuleId, sender) ELSE <<>>)
         /\ UNCHANGED <<now, _capsuleCounter, _userCapsules, protocolFee, treasury,
                        created, refWrites>>

\* -------------------------------------------------------------- getCapsule
getCapsuleErr(capsuleId) == IF ~validCapsule(capsuleId) THEN "CapsuleNotFound" ELSE "ok"

getCapsule(capsuleId) ==
    LET err == getCapsuleErr(capsuleId) IN
    IF err # "ok" THEN Revert("getCapsule", err)
    ELSE /\ last' = Outcome("getCapsule", "ok", _capsules[capsuleId], <<>>)
         /\ UNCHANGED <<now, ledger, created, refWrites>>

\* ------------------------------------------ setProtocolFee and setTreasury
setProtocolFee(sender, newFee) ==
    IF sender # treasury THEN Revert("setProtocolFee", "Only treasury can update fee")
    ELSE /\ protocolFee' = newFee
         /\ last' = Outcome("setProtocolFee", "ok", 0, <<>>)
         /\ UNCHANGED <<now, _capsuleCounter, _capsules, _userCapsules, treasury,
                        created, refWrites>>

setTreasury(sender, newTreasury) ==
    IF sender # treasury THEN Revert("setTreasury", "Only treasury can update address")
    ELSE /\ treasury' = newTreasury
         /\ last' = Outcome("setTreasury", "ok", 0, <<>>)
         /\ UNCHANGED <<now, _capsuleCounter, _capsules, _userCapsules, protocolFee,
                        created, refWrites>>

\* ------------------------------------------------------------------- clock
\* A later block: block.timestamp grows, and the previous block's call is history.
AdvanceTime(timestamp) ==
    /\ timestamp > now
    /\ now' = timestamp
    /\ last' = NoCall
    /\ UNCHANGED <<ledger, created, refWrites>>

\* Capsule ids passed to the calls: 0, the ids in use, and one past the last.
CapsuleIds == 0..(MaxCapsules + 1)

\* The block times the model visits after deployment: the last second of the
\* shortest lock taken at DeployTime, and the MaxDrift seconds after it.
BlockTimes == {DeployTime + MIN_LOCK_DURATION + d : d \in 0..MaxDrift}

\* The page before any capsule was sealed in this browser: nothing stored, no
\* reveal under way.
\* No upload has returned and no download was started.
NoIpfsCalls ==
    [uploads |-> <<>>,
     download |-> [cid |-> "", via |-> "", status |-> "idle", at |-> 0, silent |-> FALSE,
                   log |-> <<>>, result |-> <<"text", "">>, suggestions |-> <<>>]]

\* JavaScript's null: what find() || null and getItem() give when nothing is there.
null == [null |-> TRUE]

\* The reveal dialog when the page does not show it.
NoDialog ==
    [isOpen |-> FALSE, step |-> "reason", capsuleId |-> "", address |-> "",
     decryptedContent |-> null, revealMessage |-> "", earlyRevealReason |-> "",
     error |-> "", revealedCapsule |-> null, awaiting |-> 0]

BrowserInit ==
    /\ localStorage = <<>>
    /\ dateNow = 0
    /\ calls = <<>>
    /\ pinataJWT = ""
    /\ ipfs = NoIpfsCalls
    /\ dialog = NoDialog

Next ==
    \/ \E value \in FeeInputs, in \in CreateInputs :
          /\ createCapsule(in.sender, value, in.capsuleType, in.contentHash, in.contentRef,
                           now + in.lock, in.recipients, in.isPublic)
          /\ UNCHANGED browser
    \/ \E sender \in Address, capsuleId \in CapsuleIds, plaintextOrKey \in KeyInputs,
          finalContentRef \in RefInputs :
          /\ revealCapsule(sender, capsuleId, plaintextOrKey, finalContentRef)
          /\ UNCHANGED browser
    \/ \E sender \in Address, capsuleId \in CapsuleIds :
          unlockCapsule(sender, capsuleId) /\ UNCHANGED browser
    \/ \E capsuleId \in CapsuleIds : getCapsule(capsuleId) /\ UNCHANGED browser
    \/ \E sender \in Address : setProtocolFee(sender, 0) /\ UNCHANGED browser
    \/ \E sender \in Address : setTreasury(sender, User1) /\ UNCHANGED browser
    \/ \E timestamp \in BlockTimes : AdvanceTime(timestamp) /\ UNCHANGED browser

\* The contract as deployed, the browser at rest.
SpecInit == Init /\ BrowserInit

\* The ledger alone, called directly by its accounts.
Spec == SpecInit /\ [][Next]_vars

\* ------------------------------------------------------------ vocabulary
Existing == 1.._capsuleCounter

\* The fields createCapsule commits.
Commitment(capsule) ==
    <<capsule.owner, capsule.createdAt, capsule.unlockTime, capsule.capsuleType,
      capsule.contentHash, capsule.recipients, capsule.isPublic>>

\* The recipient strings of the model that name each account.
Spellings ==
    LET strings == UNION {{r[i] : i \in 1..Len(r)} : r \in RecipientInputs}
    IN  [user \in Address |-> {str \in strings : NamesAccount(str, user)}]

\* user is named in the recipient list, in either spelling of its address.
Listed(capsule, user) ==
    \E i \in 1..Len(capsule.recipients) : capsule.recipients[i] \in Spellings[user]

\* The callers the ledger's interface admits: the owner, a listed recipient, or
\* anyone when the capsule is public.
MayAccess(capsule, user) ==
    capsule.owner = user \/ Listed(capsule, user) \/ capsule.isPublic

\* A caller the ledger authorizes: the owner, a recipient listed by the lower-case
\* hexadecimal form of its address, or anyone when the capsule is public.
Authorized(capsule, user) ==
    \/ capsule.owner = user
    \/ \E i \in 1..Len(capsule.recipients) : capsule.recipients[i] = UserStr[user]
    \/ capsule.isPublic

\* A call that reverts leaves the ledger as it was.
RevertChangesNothing == last'.err # "ok" => UNCHANGED ledger

\* --------------------------------------------------------------------- C1
\* C1: while block.timestamp < unlockTime of an existing capsule, unlockCapsule and
\* revealCapsule revert with CapsuleStillLocked for every caller and every input,
\* and the failed call leaves the capsule (status and contentRef included) unchanged.
C1_StillLocked ==
    \A capsuleId \in Existing : now < _capsules[capsuleId].unlockTime =>
        \A sender \in Address :
            /\ unlockCapsuleErr(sender, capsuleId) = "CapsuleStillLocked"
            /\ \A key \in KeyInputs :
                   revealCapsuleErr(sender, capsuleId, key) = "CapsuleStillLocked"

C1_LockedBeforeUnlockTime ==
    /\ []C1_StillLocked
    /\ [][last'.err = "CapsuleStillLocked" => _capsules' = _capsules]_vars

\* One second before the unlock time, a reveal was refused as still locked.
C1_Witness ==
    /\ last = Reverted("revealCapsule", "CapsuleStillLocked")
    /\ \E capsuleId \in Existing : now + 1 = _capsules[capsuleId].unlockTime

\* --------------------------------------------------------------------- C2
\* C2: for an existing capsule that is not REVEALED, at a time >= unlockTime and for
\* an authorized caller, revealCapsule returns if and only if keccak256 of the input
\* equals the stored contentHash, and otherwise reverts with HashMismatch; a call
\* that reverts with HashMismatch leaves the status as it was.
C2_HashDecides ==
    \A capsuleId \in Existing, sender \in Address :
        (/\ _capsules[capsuleId].status # "REVEALED"
         /\ now >= _capsules[capsuleId].unlockTime
         /\ Authorized(_capsules[capsuleId], sender)) =>
            \A key \in KeyInputs :
                revealCapsuleErr(sender, capsuleId, key) =
                    IF keccak256(key) = _capsules[capsuleId].contentHash
                      THEN "ok" ELSE "HashMismatch"

C3_Refused ==
    \A capsuleId \in Existing, sender \in Address :
        ~MayAccess(_capsules[capsuleId], sender) =>
            LET refusal == IF now < _capsules[capsuleId].unlockTime
                             THEN "CapsuleStillLocked" ELSE "UnauthorizedAccess"
            IN  /\ unlockCapsuleErr(sender, capsuleId) = refusal
                /\ \A key \in KeyInputs : revealCapsuleErr(sender, capsuleId, key) = refusal

C3_StatusMovedByAuthorized ==
    \A capsuleId \in Existing :
        _capsules'[capsuleId].status # _capsules[capsuleId].status =>
            /\ last'.op \in {"unlockCapsule", "revealCapsule"}
            /\ last'.log[2] = capsuleId
            /\ MayAccess(_capsules[capsuleId], last'.log[3])

C3_Authorization ==
    /\ []C3_Refused
    /\ [][RevertChangesNothing /\ C3_StatusMovedByAuthorized]_vars

\* After the unlock time of a private capsule, a reveal was refused as unauthorized.
C3_Witness ==
    /\ last = Reverted("revealCapsule", "UnauthorizedAccess")
    /\ \E capsuleId \in Existing, sender \in Address :
           /\ ~MayAccess(_capsules[capsuleId], sender)
           /\ now >= _capsules[capsuleId].unlockTime

\* --------------------------------------------------------------------- C4
\* C4: a capsule's status never moves backwards in LOCKED < UNLOCKED < REVEALED.
C4_StatusMonotonic ==
    [][\A capsuleId \in Existing :
          StatusRank(_capsules'[capsuleId].status) >= StatusRank(_capsules[capsuleId].status)
      ]_vars

\* unlockCapsule returned on a capsule that was already REVEALED.
C4_Witness ==
    /\ last = Outcome("unlockCapsule", "ok", 0, <<>>)
    /\ \E capsuleId \in Existing : _capsules[capsuleId].status = "REVEALED"
    /\ \A capsuleId \in Existing : _capsules[capsuleId].status # "UNLOCKED"

\* --------------------------------------------------------------------- C5
\* C5: at any time >= unlockTime, unlockCapsule by an authorized caller returns; a
\* call that returns moves one LOCKED capsule to UNLOCKED or, the capsule being
\* UNLOCKED or REVEALED already, changes nothing, whoever the caller is.
C5_UnlockReturns ==
    \A capsuleId \in Existing, sender \in Address :
        (/\ now >= _capsules[capsuleId].unlockTime
         /\ Authorized(_capsules[capsuleId], sender)) =>
            unlockCapsuleErr(sender, capsuleId) = "ok"

C5_UnlockEffect ==
    (last'.op = "unlockCapsule" /\ last'.err = "ok") =>
        /\ UNCHANGED <<_capsuleCounter, _userCapsules, protocolFee, treasury>>
        /\ \/ _capsules' = _capsules
           \/ \E capsuleId \in Existing :
                  /\ _capsules[capsuleId].status = "LOCKED"
                  /\ _capsules' = [_capsules EXCEPT ![capsuleId].status = "UNLOCKED"]

C6_CommitmentImmutable ==
    [][\A capsuleId \in Existing :
          /\ capsuleId <= _capsuleCounter'
          /\ Commitment(_capsules'[capsuleId]) = Commitment(_capsules[capsuleId])]_vars

\* The first capsule was revealed with a final reference, a second was created, and
\* the treasury changed both the fee and itself.
C6_Witness ==
    /\ _capsuleCounter = MaxCapsules
    /\ _capsules[1].status = "REVEALED" /\ _capsules[1].contentRef = "QmFinal"
    /\ _capsules[2].createdAt >= _capsules[1].unlockTime
    /\ protocolFee = 0 /\ treasury = User1

\* --------------------------------------------------------------------- C7
\* C7: contentRef changes only inside a revealCapsule call that returns and supplies
\* a non-empty finalContentRef, which becomes the contentRef; a reveal with an empty
\* finalContentRef and every other call leave it; it is written at most once.
C7_WrittenAtMostOnce == \A capsuleId \in Existing : refWrites[capsuleId] <= 1

C7_RefStep ==
    \A capsuleId \in Existing :
        LET wasRef == _capsules[capsuleId].contentRef
            isRef == _capsules'[capsuleId].contentRef
            revealedHere == /\ last'.op = "revealCapsule" /\ last'.err = "ok"
                            /\ last'.log[2] = capsuleId
        IN  /\ (isRef # wasRef \/ refWrites'[capsuleId] # refWrites[capsuleId]) =>
                   /\ revealedHere
                   /\ Len(last'.log[4]) > 0
                   /\ isRef = last'.log[4]
                   /\ refWrites'[capsuleId] = refWrites[capsuleId] + 1
            /\ (revealedHere /\ Len(last'.log[4]) = 0) => isRef = wasRef

C7_ContentRefReplacedOnce == []C7_WrittenAtMostOnce /\ [][C7_RefStep]_vars

\* One capsule was revealed with a final reference and another with none.
C7_Witness ==
    /\ \E capsuleId \in Existing :
           _capsules[capsuleId].contentRef = "QmFinal" /\ refWrites[capsuleId] = 1
    /\ \E capsuleId \in Existing :
           /\ _capsules[capsuleId].status = "REVEALED"
           /\ _capsules[capsuleId].contentRef = "QmSealed"

\* --------------------------------------------------------------------- C8
\* C8: every stored capsule has createdAt + MIN_LOCK_DURATION <= unlockTime <=
\* createdAt + MAX_LOCK_DURATION; createCapsule with an unlockTime outside the window
\* reverts with InvalidUnlockTime, whatever the value sent, and leaves the counter,
\* the capsules and the id lists unchanged.
C8_LockWindow ==
    \A capsuleId \in Existing :
        LET capsule == _capsules[capsuleId] IN
        /\ capsule.createdAt + MIN_LOCK_DURATION <= capsule.unlockTime
        /\ capsule.unlockTime <= capsule.createdAt + MAX_LOCK_DURATION

C8_OutsideRejected ==
    \A value \in FeeInputs, in \in CreateInputs :
        (in.lock < MIN_LOCK_DURATION \/ in.lock > MAX_LOCK_DURATION) =>
            createCapsuleErr(value, now + in.lock) = "InvalidUnlockTime"

C8_LockWindowInvariant ==
    /\ [](C8_LockWindow /\ C8_OutsideRejected)
    /\ [][last'.err = "InvalidUnlockTime" =>
             UNCHANGED <<_capsuleCounter, _capsules, _userCapsules>>]_vars

\* A capsule locked for the longest duration is stored, and a creation was refused
\* for its unlock time.
C8_Witness ==
    /\ last = Reverted("createCapsule", "InvalidUnlockTime")
    /\ \E capsuleId \in Existing :
           _capsules[capsuleId].unlockTime =
               _capsules[capsuleId].createdAt + MAX_LOCK_DURATION

\* --------------------------------------------------------------------- C9
\* C9: on a fresh contract, createCapsule with unlockTime exactly MIN_LOCK_DURATION
\* after the block time and value = protocolFee returns; afterwards totalCapsules
\* is 1 and the creator's capsule list is <<1>>.
C9_BoundaryStep ==
    \A in \in CreateInputs :
        (_capsuleCounter = 0 /\ in.lock = MIN_LOCK_DURATION
            /\ createCapsule(in.sender, protocolFee, in.capsuleType, in.contentHash,
                             in.contentRef, now + in.lock, in.recipients, in.isPublic)) =>
            /\ last'.err = "ok"
            /\ _capsuleCounter' = 1
            /\ _userCapsules'[in.sender] = <<1>>

C9_BoundaryAccepted == [][last'.op = "createCapsule" => C9_BoundaryStep]_vars

\* -------------------------------------------------------------------- C10
\* C10: totalCapsules starts at 0 and equals the number of createCapsule calls that
\* returned; the k-th returns k, stores capsule k LOCKED and owned by the caller and
\* appends k to the caller's list alone; getCapsule(0) and getCapsule(id) for
\* id > totalCapsules revert with CapsuleNotFound.
C10_Ids ==
    /\ _capsuleCounter = created
    /\ Len(_capsules) = _capsuleCounter
    /\ \A capsuleId \in Existing :
           \A user \in Address :
               (\E i \in 1..Len(_userCapsules[user]) : _userCapsules[user][i] = capsuleId)
                   <=> _capsules[capsuleId].owner = user
    /\ \A user \in Address : \A i, j \in 1..Len(_userCapsules[user]) :
           i < j => _userCapsules[user][i] < _userCapsules[user][j]
    /\ \A capsuleId \in CapsuleIds :
           (capsuleId = 0 \/ capsuleId > _capsuleCounter) =>
               getCapsuleErr(capsuleId) = "CapsuleNotFound"

C10_CreateStep ==
    IF last'.op = "createCapsule" /\ last'.err = "ok"
      THEN LET capsuleId == last'.ret
               sender == last'.log[3]
           IN  /\ created' = created + 1
               /\ capsuleId = created'
               /\ _capsuleCounter' = capsuleId
               /\ _capsules'[capsuleId].owner = sender
               /\ _capsules'[capsuleId].status = "LOCKED"
               /\ _userCapsules' = [_userCapsules EXCEPT ![sender] = Append(@, capsuleId)]
      ELSE UNCHANGED <<_capsuleCounter, created, _userCapsules>>

C10_IdentifierAssignment ==
    /\ _capsuleCounter = 0
    /\ []C10_Ids
    /\ [][C10_CreateStep]_vars

\* Two creations by two callers returned, and getCapsule refused the id after them.
C10_Witness ==
    /\ last = Reverted("getCapsule", "CapsuleNotFound")
    /\ _userCapsules[User1] = <<2>> /\ _userCapsules[User2] = <<1>>

\* ============================================================ the browser
\* localStorage.setItem(key, value)
setItem(storage, key, value) == (key :> value) @@ storage

\* JSON.parse(localStorage.getItem(key) || '[]')
getList(storage, key) == IF key \in DOMAIN storage THEN storage[key] ELSE <<>>

\* cid.startsWith(prefix)
startsWith(str, prefix) ==
    Len(str) >= Len(prefix) /\ SubSeq(str, 1, Len(prefix)) = prefix

\* ------------------------------------------------ IPFSService: publishing
\* Math.random().toString(36).slice(2, 8), as the model draws it.
RandomIds == {"k3x9qa", "z81mcd"}

\* `local_${timestamp}_${randomId}`
mockCid(timestamp, randomId) == "local_" \o ToString(timestamp) \o "_" \o randomId

\* The fallback that keeps the metadata but not the data.
fallbackToLocalStorage_MetaOnly(storage, data, fileName, timestamp, randomId) ==
    LET cid == mockCid(timestamp, randomId) IN
    [result |-> [cid |-> cid, url |-> "local://" \o cid, method |-> "localStorage"],
     storage |-> setItem(storage, "ipfs_meta_" \o cid,
                         [fileName |-> fileName, uploadedAt |-> timestamp])]

\* fallbackToLocalStorage(data, fileName) at Date.now() = timestamp: the result it
\* returns and the storage it leaves.
fallbackToLocalStorage(storage, data, fileName, timestamp, randomId) ==
    LET cid == mockCid(timestamp, randomId) IN
    [result |-> [cid |-> cid, url |-> "local://" \o cid, method |-> "localStorage"],
     storage |-> setItem(setItem(storage, "ipfs_" \o cid, data), "ipfs_meta_" \o cid,
                         [fileName |-> fileName, uploadedAt |-> timestamp])]

\* What the pinning endpoint does with one request: it answers 200 with the
\* IpfsHash it assigned, answers with an error status, or the fetch throws.
PinataCids == {"bafkreiaxq", "bafkreibzn"}
PinResponses ==
    {[status |-> "200", IpfsHash |-> cid] : cid \in PinataCids}
    \cup {[status |-> "401", IpfsHash |-> ""], [status |-> "throws", IpfsHash |-> ""]}

\* The result of uploadToPinata once the endpoint has answered, and the storage
\* it leaves: the fallback runs when no JWT is configured (the endpoint is then not
\* asked), when the status is not ok and when the fetch throws.
uploadToPinata(storage, jwt, data, fileName, response, timestamp, randomId) ==
    IF jwt = "" THEN fallbackToLocalStorage(storage, data, fileName, timestamp, randomId)
    ELSE IF response.status = "200"
      THEN [result |-> [cid |-> response.IpfsHash,
                        url |-> "https://gateway.pinata.cloud/ipfs/" \o response.IpfsHash,
                        method |-> "pinata"],
            storage |-> storage]
    ELSE fallbackToLocalStorage(storage, data, fileName, timestamp, randomId)

\* ------------------------------------------------- cryptoService: sealing
\* AES-GCM as an authenticated cipher: the ciphertext opens under the key and iv
\* it was sealed with and under no other.
encrypt(data, key, iv) ==
    [encryptedContent |-> <<"AES-GCM", key, iv, data>>, iv |-> iv, key |-> key]

\* BrowserBuffer.arrayBufferToBase64 of a key or an iv.
arrayBufferToBase64(buffer) == "b64:" \o buffer

\* BrowserBuffer.base64ToArrayBuffer, of such an encoding.
base64ToArrayBuffer(base64) == SubSeq(base64, 5, Len(base64))

\* crypto.subtle.digest('SHA-256', ...): a digest that names its preimage.
sha256(x) == <<"SHA-256", x>>

\* ------------------------------------------------------- useCreateCapsule
\* The keys and ivs crypto.subtle may generate.
FreshKeys == {"key-a", "key-b"}
FreshIvs == {"iv-a"}

\* Step 4 of the hook: the content hash it hands to the contract.
hashHex(params) == sha256(params.content)

\* Step 6 of the hook: the recovery kit it keeps in localStorage.
recoveryKit(encryptedData, ipfsResult) ==
    [key |-> arrayBufferToBase64(encryptedData.key),
     iv |-> arrayBufferToBase64(encryptedData.iv),
     capsuleId |-> "pending", ipfsCid |-> ipfsResult.cid]

\* useCreateCapsule().createCapsule(params) by the connected account: encrypt,
\* upload, hash, keep the recovery kit, then the createCapsule transaction with
\* 0.001 ether. params.unlockDate is in seconds, as the hook passes it on.
useCreateCapsule(sender, params, key, iv, response, randomId) ==
    LET encryptedData == encrypt(params.content, key, iv)
        capsuleData == [title |-> params.title,
                        content |-> <<"base64", encryptedData.encryptedContent>>,
                        visibility |-> params.visibility]
        upload == uploadToPinata(localStorage, pinataJWT, capsuleData, "capsule.json",
                                 response, dateNow, randomId)
        ipfsResult == upload.result
        existingKeys == getList(upload.storage, "capsuleKeys")
    IN
    /\ Len(existingKeys) < MaxCapsules
    /\ localStorage' = setItem(upload.storage, "capsuleKeys",
                               Append(existingKeys, recoveryKit(encryptedData, ipfsResult)))
    /\ dateNow' = dateNow + 1
    /\ createCapsule(sender, InitialProtocolFee, "ENCRYPTED", hashHex(params),
                     ipfsResult.cid, params.unlockDate, params.recipients,
                     params.visibility = "public")
    /\ UNCHANGED <<calls, pinataJWT, ipfs, dialog>>

\* The forms the page submits with what the browser and the pinning endpoint add
\* to each: a private text pinned at Pinata, a public one whose upload throws, and
\* one whose unlock date is exactly the shortest lock after the block time.
HookInputs ==
    {[params |-> [title |-> "To the future", content |-> "hello future",
                  unlockDate |-> now + MIN_LOCK_DURATION + 1, visibility |-> "private",
                  recipients |-> <<>>],
      key |-> "key-a", iv |-> "iv-a", randomId |-> "k3x9qa",
      response |-> [status |-> "200", IpfsHash |-> "bafkreiaxq"]],
     [params |-> [title |-> "Memo", content |-> "memo",
                  unlockDate |-> now + MIN_LOCK_DURATION + 1, visibility |-> "public",
                  recipients |-> <<>>],
      key |-> "key-b", iv |-> "iv-a", randomId |-> "z81mcd",
      response |-> [status |-> "throws", IpfsHash |-> ""]],
     [params |-> [title |-> "Memo", content |-> "memo",
                  unlockDate |-> now + MIN_LOCK_DURATION, visibility |-> "public",
                  recipients |-> <<>>],
      key |-> "key-a", iv |-> "iv-a", randomId |-> "k3x9qa",
      response |-> [status |-> "401", IpfsHash |-> ""]]}

\* What a holder of the recovery kits of this browser can present to the ledger:
\* the key and the iv of a kit, in the encoding the kit keeps them and raw.
CredentialMaterial ==
    LET kits == getList(localStorage, "capsuleKeys") IN
    UNION {{kits[i].key, kits[i].iv} : i \in 1..Len(kits)} \cup FreshKeys \cup FreshIvs

\* The same browser with or without a Pinata token.
ClientInit ==
    /\ Init
    /\ localStorage = <<>>
    /\ dateNow = 0
    /\ calls = <<>>
    /\ pinataJWT \in {"", "jwt"}
    /\ ipfs = NoIpfsCalls
    /\ dialog = NoDialog

ClientNext ==
    \/ \E in \in HookInputs :
          useCreateCapsule(User1, in.params, in.key, in.iv, in.response, in.randomId)
    \/ \E sender \in Address, capsuleId \in CapsuleIds,
          plaintextOrKey \in CredentialMaterial \cup {"hello future", "memo"} :
          revealCapsule(sender, capsuleId, plaintextOrKey, "") /\ UNCHANGED browser
    \/ \E timestamp \in BlockTimes : AdvanceTime(timestamp) /\ UNCHANGED browser

\* Capsules sealed through the page, then revealed on the ledger.
ClientSpec == ClientInit /\ [][ClientNext]_vars

\* -------------------------------------------------------------------- C11
\* C11: the contentHash the client commits when it creates a capsule is the
\* keccak256 (the hash revealCapsule applies) of the credential material of the
\* capsule's recovery kit, not a hash of the plaintext, so that once the unlock time
\* has passed the holder of the kit can pass the ledger's hash check.
C11_Material(kit) ==
    {kit.key, kit.iv, base64ToArrayBuffer(kit.key), base64ToArrayBuffer(kit.iv),
     base64ToArrayBuffer(kit.key) \o base64ToArrayBuffer(kit.iv)}

C11_KitsOf(capsuleId) ==
    LET kits == getList(localStorage, "capsuleKeys") IN
    {kits[i] : i \in {j \in 1..Len(kits) : kits[j].ipfsCid = _capsules[capsuleId].contentRef}}

C11_CommitsCredentialHash ==
    \A capsuleId \in Existing :
        /\ C11_KitsOf(capsuleId) # {}
        /\ \A kit \in C11_KitsOf(capsuleId) :
               /\ \E material \in C11_Material(kit) :
                      _capsules[capsuleId].contentHash = keccak256(material)
               /\ (now >= _capsules[capsuleId].unlockTime
                      /\ _capsules[capsuleId].status # "REVEALED") =>
                      \E material \in C11_Material(kit) :
                          revealCapsuleErr(_capsules[capsuleId].owner, capsuleId,
                                           material) = "ok"

\* ========================================================== RevealService
\* ------------------------------------------------------ cryptoService: opening
\* ArrayBuffer.byteLength of a decoded key or iv: generated keys have 32 bytes,
\* generated ivs 12, any other buffer as many as it has characters.
byteLength(buffer) ==
    IF buffer \in FreshKeys THEN 32 ELSE IF buffer \in FreshIvs THEN 12 ELSE Len(buffer)

\* /^[A-Za-z0-9+/]*={0,2}$/.test(clean) and atob(clean) succeed.
IsBase64(str) == startsWith(str, "b64:")

Digits == "0123456789"

RECURSIVE AllDigits(_, _)
AllDigits(str, i) ==
    IF i > Len(str) THEN TRUE
    ELSE /\ \E d \in 1..Len(Digits) : SubSeq(str, i, i) = SubSeq(Digits, d, d)
         /\ AllDigits(str, i + 1)

\* capsuleId.match(/^\d+$/)
IsNumericId(capsuleId) == Len(capsuleId) > 0 /\ AllDigits(capsuleId, 1)

\* validateRecoveryKit(kit): { isValid, error }
validateRecoveryKit(kit) ==
    IF kit.key = "" THEN [isValid |-> FALSE, error |-> "Recovery kit missing or invalid encryption key"]
    ELSE IF kit.iv = "" THEN [isValid |-> FALSE, error |-> "Recovery kit missing or invalid initialization vector"]
    ELSE IF kit.capsuleId = "" THEN [isValid |-> FALSE, error |-> "Recovery kit missing or invalid capsule ID"]
    ELSE IF IsNumericId(kit.capsuleId) THEN [isValid |-> TRUE, error |-> ""]
    ELSE IF ~IsBase64(kit.key) THEN [isValid |-> FALSE, error |-> "Recovery kit key contains invalid base64 characters"]
    ELSE IF ~IsBase64(kit.iv) THEN [isValid |-> FALSE, error |-> "Recovery kit IV contains invalid base64 characters"]
    ELSE IF byteLength(base64ToArrayBuffer(kit.key)) # 32 THEN [isValid |-> FALSE, error |-> "Invalid encryption key length"]
    ELSE IF byteLength(base64ToArrayBuffer(kit.iv)) # 12 THEN [isValid |-> FALSE, error |-> "Invalid initialization vector length"]
    ELSE [isValid |-> TRUE, error |-> ""]

\* A thrown Error, or a returned value.
Throws(message) == [ok |-> FALSE, value |-> message]
Returns(value) == [ok |-> TRUE, value |-> value]

\* cryptoService.decrypt: crypto.subtle.decrypt rejects unless key and iv are the
\* ones the ciphertext was sealed with.
decrypt(encryptedData, key, iv) ==
    IF encryptedData[2] = key /\ encryptedData[3] = iv THEN Returns(encryptedData[4])
    ELSE Throws("OperationError")

\* cryptoService.decryptCapsuleContent(encryptedContentBase64, recoveryKit); every
\* failure is rethrown as "Decryption failed: ...".
decryptCapsuleContent(encryptedContentBase64, kit) ==
    LET validation == validateRecoveryKit(kit) IN
    IF ~validation.isValid THEN Throws("Decryption failed: Invalid recovery kit")
    ELSE IF ~IsBase64(kit.key) \/ ~IsBase64(kit.iv)
      THEN Throws("Decryption failed: Failed to decode base64 data")
    ELSE LET opened == decrypt(encryptedContentBase64[2], base64ToArrayBuffer(kit.key),
                               base64ToArrayBuffer(kit.iv))
         IN  IF ~opened.ok THEN Throws("Decryption failed: OperationError")
             ELSE IF opened.value.title = "" \/ opened.value.creator = ""
               THEN Throws("Decryption failed: Decrypted content has invalid structure")
             ELSE opened

\* ------------------------------------------------------------ RevealService
REVEALED_CAPSULES_KEY == "revealed_capsules"


UpperCase == "ABCDEFGHIJKLMNOPQRSTUVWXYZ"
LowerCase == "abcdefghijklmnopqrstuvwxyz"

RECURSIVE toLowerCase(_)
toLowerCase(str) ==
    IF str = "" THEN ""
    ELSE LET c == SubSeq(str, 1, 1)
             upper == {i \in 1..Len(UpperCase) : SubSeq(UpperCase, i, i) = c}
         IN  (IF upper = {} THEN c
              ELSE LET i == CHOOSE j \in upper : TRUE IN SubSeq(LowerCase, i, i))
             \o toLowerCase(SubSeq(str, 2, Len(str)))

\* Array.prototype.findIndex for "the element's id is id", counted from 1; 0 for none.
findIndex(list, id) ==
    LET found == {i \in 1..Len(list) : list[i].id = id} IN
    IF found = {} THEN 0 ELSE CHOOSE i \in found : \A j \in found : i <= j

getRevealedCapsules(storage) == getList(storage, REVEALED_CAPSULES_KEY)

getRevealedCapsule(storage, capsuleId) ==
    LET revealed == getRevealedCapsules(storage)
        capsuleIndex == findIndex(revealed, capsuleId)
    IN  IF capsuleIndex = 0 THEN null ELSE revealed[capsuleIndex]

\* The helper without its filter: the new entry is pushed after whatever is there.
storeRevealedCapsule_NoFilter(storage, capsule) ==
    setItem(storage, REVEALED_CAPSULES_KEY, Append(getRevealedCapsules(storage), capsule))

storeRevealedCapsule(storage, capsule) ==
    LET revealed == getRevealedCapsules(storage)
        filteredRevealed == SelectSeq(revealed, LAMBDA c : c.id # capsule.id)
    IN  setItem(storage, REVEALED_CAPSULES_KEY, Append(filteredRevealed, capsule))

\* getCapsuleIPFSHash(capsuleId): the ipfsHash of the stored capsule, "" standing
\* for null (the callers test it with !ipfsCid, which takes both alike).
getCapsuleIPFSHash(storage, capsuleId) ==
    LET storedCapsules == getList(storage, "timeCapsules")
        capsuleIndex == findIndex(storedCapsules, capsuleId)
    IN  IF capsuleIndex = 0 THEN "" ELSE storedCapsules[capsuleIndex].ipfsHash

isUserAuthorized(capsuleData, userAddress) ==
    toLowerCase(capsuleData.creator) = toLowerCase(userAddress)

\* A string kept in the cache or on the network: <<"text", characters>>, or
\* <<"base64", buffer>> for the base64 text of a buffer. !content of such a string.
IsEmptyString(content) == content[1] = "text" /\ content[2] = ""

\* The local_ branch reading the key without its ipfs_ prefix.
downloadLocal_BareKey(storage, cid) ==
    LET stored == IF cid \in DOMAIN storage THEN storage[cid] ELSE null
    IN  IF stored = null \/ IsEmptyString(stored)
          THEN Throws("Content not found in local storage")
        ELSE Returns(stored)

\* The local_ branch of ipfsService.download(cid).
downloadLocal(storage, cid) ==
    LET key == "ipfs_" \o cid
        stored == IF key \in DOMAIN storage THEN storage[key] ELSE null
    IN  IF stored = null \/ IsEmptyString(stored)
          THEN Throws("Content not found in local storage")
        ELSE Returns(stored)

RevealResult(success, error, data) == [success |-> success, error |-> error, data |-> data]

revealedRecord(capsuleId, data, at, userAddress, originalUnlockTime, revealMessage) ==
    [id |-> capsuleId,
     originalData |-> data,
     revealMetadata |-> [revealedAt |-> at, revealedBy |-> userAddress,
                         isEarlyReveal |-> at < originalUnlockTime * 1000,
                         originalUnlockTime |-> originalUnlockTime,
                         revealMessage |-> revealMessage,
                         socialInteractions |-> [likes |-> 0, comments |-> <<>>]]]

mockDecryptedContent(at, userAddress) ==
    [title |-> "Test Time Capsule",
     description |-> "This is a test capsule for early reveal functionality",
     files |-> <<>>, createdAt |-> at, creator |-> userAddress]

\* Reveal and preview calls one run of the page makes.
MaxCalls == 2
\* Seconds the browser clock runs on after the page was opened.
MaxTicks == 1
\* Likes and comments the index collects.
MaxInteractions == 1

\* The variables no step of the reveal service touches.
outsideService == <<now, ledger, last, created, refWrites, pinataJWT, ipfs>>
outsideReveal == <<outsideService, dialog>>

\* A call of revealCapsule or previewCapsule: its arguments, the await it is
\* suspended at (pc), what it has read so far, and its result once it returned.
Call(op, caller, capsuleId, kit, userAddress, originalUnlockTime, revealMessage) ==
    [op |-> op, caller |-> caller, capsuleId |-> capsuleId, recoveryKit |-> kit,
     userAddress |-> userAddress, originalUnlockTime |-> originalUnlockTime,
     revealMessage |-> revealMessage, pc |-> "start", ipfsCid |-> "",
     download |-> null, decrypted |-> null, result |-> null]

return(call, result) == [call EXCEPT !.pc = "returned", !.result = result]

\* The entry without the look into the index.
revealService_revealCapsuleErr_NoIndexCheck(storage, capsuleId, kit) ==
    LET validation == validateRecoveryKit(kit) IN
    IF ~validation.isValid THEN "Invalid recovery kit: " \o validation.error
    ELSE IF kit.capsuleId # capsuleId /\ ~IsNumericId(capsuleId)
      THEN "Recovery kit does not match the specified capsule"
    ELSE "ok"

\* revealCapsule up to its first await: the reason it returns a failure at once, or
\* "ok" when it goes on to look the capsule up.
revealService_revealCapsuleErr(storage, capsuleId, kit) ==
    LET validation == validateRecoveryKit(kit) IN
    IF ~validation.isValid THEN "Invalid recovery kit: " \o validation.error
    ELSE IF kit.capsuleId # capsuleId /\ ~IsNumericId(capsuleId)
      THEN "Recovery kit does not match the specified capsule"
    ELSE IF getRevealedCapsule(storage, capsuleId) # null
      THEN "This capsule has already been revealed"
    ELSE "ok"

\* previewCapsule up to its first await.
previewCapsuleErr(kit) ==
    LET validation == validateRecoveryKit(kit) IN
    IF ~validation.isValid THEN validation.error ELSE "ok"

\* The call starts: it runs to its first await, or returns a failure.
invoke(call) ==
    LET err == IF call.op = "revealCapsule"
                 THEN revealService_revealCapsuleErr(localStorage, call.capsuleId,
                                                     call.recoveryKit)
               ELSE previewCapsuleErr(call.recoveryKit)
    IN
    /\ Len(SelectSeq(calls, LAMBDA c : c.op # "createCapsule")) < MaxCalls
    /\ calls' = Append(calls,
           IF err # "ok" THEN return(call, RevealResult(FALSE, err, null))
           ELSE [call EXCEPT !.pc = "getCapsuleIPFSHash",
                             !.ipfsCid = getCapsuleIPFSHash(localStorage, call.capsuleId)])

startCall(call) == invoke(call) /\ UNCHANGED <<localStorage, dateNow, outsideReveal>>

revealService_revealCapsule(capsuleId, kit, userAddress, originalUnlockTime, revealMessage) ==
    startCall(Call("revealCapsule", "page", capsuleId, kit, userAddress,
                   originalUnlockTime, revealMessage))

previewCapsule(capsuleId, kit, userAddress, originalUnlockTime) ==
    startCall(Call("previewCapsule", "page", capsuleId, kit, userAddress,
                   originalUnlockTime, "undefined"))

\* The end of a call that stores the record whichever function was called.
finish_StoresPreview(i, data, revealMessage) ==
    LET call == calls[i]
        record == revealedRecord(call.capsuleId, data, dateNow, call.userAddress,
                                 call.originalUnlockTime, revealMessage)
    IN
    /\ calls' = [calls EXCEPT ![i] = return(call, RevealResult(TRUE, "", record))]
    /\ localStorage' = storeRevealedCapsule(localStorage, record)

\* The call finishes with the capsule data it obtained: revealCapsule stores the
\* record and returns it, previewCapsule only returns it.
finish(i, data, revealMessage) ==
    LET call == calls[i]
        record == revealedRecord(call.capsuleId, data, dateNow, call.userAddress,
                                 call.originalUnlockTime, revealMessage)
    IN
    /\ calls' = [calls EXCEPT ![i] = return(call, RevealResult(TRUE, "", record))]
    /\ localStorage' = IF call.op = "revealCapsule"
                         THEN storeRevealedCapsule(localStorage, record)
                       ELSE localStorage

fail(i, error) ==
    /\ calls' = [calls EXCEPT ![i] = return(calls[i], RevealResult(FALSE, error, null))]
    /\ UNCHANGED localStorage

\* The call resumes after await getCapsuleIPFSHash.
afterGetCapsuleIPFSHash(i) ==
    LET call == calls[i] IN
    /\ call.pc = "getCapsuleIPFSHash"
    /\ IF call.ipfsCid = ""
         THEN fail(i, IF call.op = "revealCapsule"
                        THEN "Could not find IPFS content for this capsule"
                      ELSE "Unable to locate capsule data on IPFS")
       ELSE IF startsWith(call.ipfsCid, "mock_")
         THEN finish(i, mockDecryptedContent(dateNow, call.userAddress),
                     IF call.op = "previewCapsule" \/ call.revealMessage = "undefined"
                       THEN "" ELSE call.revealMessage)
       ELSE /\ calls' = [calls EXCEPT ![i] =
                   [call EXCEPT !.pc = "download",
                                !.download = IF startsWith(call.ipfsCid, "local_")
                                               THEN downloadLocal(localStorage, call.ipfsCid)
                                             ELSE null]]
            /\ UNCHANGED localStorage
    /\ UNCHANGED <<dateNow, outsideReveal>>

\* The call resumes after await ipfsService.download(ipfsCid); outcome is what the
\* network gave when the address is not a local one.
afterDownload(i, outcome) ==
    LET call == calls[i]
        downloaded == IF call.download = null THEN outcome ELSE call.download
    IN
    /\ call.pc = "download"
    /\ IF ~downloaded.ok
         THEN fail(i, IF call.op = "revealCapsule"
                        THEN "Failed to download content from IPFS: " \o downloaded.value
                      ELSE downloaded.value)
       ELSE /\ calls' = [calls EXCEPT ![i] =
                   [call EXCEPT !.pc = "decryptCapsuleContent",
                                !.download = downloaded,
                                !.decrypted = decryptCapsuleContent(downloaded.value,
                                                                    call.recoveryKit)]]
            /\ UNCHANGED localStorage
    /\ UNCHANGED <<dateNow, outsideReveal>>

\* The call resumes after await cryptoService.decryptCapsuleContent.
afterDecryptCapsuleContent(i) ==
    LET call == calls[i] IN
    /\ call.pc = "decryptCapsuleContent"
    /\ IF ~call.decrypted.ok THEN fail(i, call.decrypted.value)
       ELSE IF ~isUserAuthorized(call.decrypted.value, call.userAddress)
         THEN fail(i, IF call.op = "revealCapsule"
                        THEN "You are not authorized to reveal this capsule"
                      ELSE "You are not authorized to access this capsule")
       ELSE finish(i, call.decrypted.value,
                   IF call.op = "previewCapsule" THEN "" ELSE call.revealMessage)
    /\ UNCHANGED <<dateNow, outsideReveal>>

RECURSIVE interactions(_, _)
interactions(revealed, k) ==
    IF k > Len(revealed) THEN 0
    ELSE revealed[k].revealMetadata.socialInteractions.likes
         + Len(revealed[k].revealMetadata.socialInteractions.comments)
         + interactions(revealed, k + 1)

\* What a call run without interruption gives back: the value it returns and the
\* storage it leaves.
Returned(returns, storage) == [returns |-> returns, storage |-> storage]

\* likeCapsule(capsuleId) over the storage it reads.
likeCapsuleIn(storage, capsuleId) ==
    LET revealed == getRevealedCapsules(storage)
        capsuleIndex == findIndex(revealed, capsuleId)
    IN  IF capsuleIndex = 0 THEN Returned(FALSE, storage)
        ELSE Returned(TRUE, setItem(storage, REVEALED_CAPSULES_KEY,
                 [revealed EXCEPT
                      ![capsuleIndex].revealMetadata.socialInteractions.likes = @ + 1]))

\* addComment(capsuleId, author, content) over the storage it reads, at time at.
addCommentIn(storage, at, capsuleId, author, content) ==
    LET revealed == getRevealedCapsules(storage)
        capsuleIndex == findIndex(revealed, capsuleId)
        comment == [id |-> ToString(at), author |-> author, content |-> content,
                    timestamp |-> at]
    IN  IF capsuleIndex = 0 THEN Returned(FALSE, storage)
        ELSE Returned(TRUE, setItem(storage, REVEALED_CAPSULES_KEY,
                 [revealed EXCEPT
                      ![capsuleIndex].revealMetadata.socialInteractions.comments =
                          Append(@, comment)]))

likeCapsule(capsuleId) ==
    /\ likeCapsuleIn(localStorage, capsuleId).returns
          => interactions(getRevealedCapsules(localStorage), 1) < MaxInteractions
    /\ localStorage' = likeCapsuleIn(localStorage, capsuleId).storage
    /\ UNCHANGED <<calls, dateNow, outsideReveal>>

addComment(capsuleId, author, content) ==
    /\ addCommentIn(localStorage, dateNow, capsuleId, author, content).returns
          => interactions(getRevealedCapsules(localStorage), 1) < MaxInteractions
    /\ localStorage' = addCommentIn(localStorage, dateNow, capsuleId, author, content).storage
    /\ UNCHANGED <<calls, dateNow, outsideReveal>>

createPseudoRevealedCapsule(capsule, at) ==
    [id |-> capsule.id,
     originalData |-> [title |-> capsule.title, description |-> capsule.description,
                       files |-> <<>>, createdAt |-> at,
                       creator |-> IF capsule.creator = "" THEN "Unknown" ELSE capsule.creator],
     revealMetadata |-> [revealedAt |-> at,
                         revealedBy |-> IF capsule.creator = "" THEN "system" ELSE capsule.creator,
                         isEarlyReveal |-> FALSE,
                         originalUnlockTime |-> capsule.unlockTime,
                         revealMessage |-> "Unlocked naturally (content preview)",
                         socialInteractions |-> [likes |-> 0, comments |-> <<>>]]]

\* A sweep that takes every stored capsule for unlocked.
isNaturallyUnlocked_Always(capsule, at) == TRUE

\* currentTime >= capsule.unlockTime, with currentTime = Date.now() / 1000.
isNaturallyUnlocked(capsule, at) == at >= capsule.unlockTime * 1000

RECURSIVE pseudoRevealed(_, _, _, _)
pseudoRevealed(storedCapsules, existingRevealed, at, k) ==
    IF k > Len(storedCapsules) THEN <<>>
    ELSE (IF /\ isNaturallyUnlocked(storedCapsules[k], at)
             /\ findIndex(existingRevealed, storedCapsules[k].id) = 0
             /\ storedCapsules[k].visibility # "private"
            THEN <<createPseudoRevealedCapsule(storedCapsules[k], at)>>
          ELSE <<>>)
         \o pseudoRevealed(storedCapsules, existingRevealed, at, k + 1)

\* addUnlockedCapsulesAsPseudoRevealed over the storage it reads.
addUnlockedCapsulesAsPseudoRevealedIn(storage, at) ==
    LET existingRevealed == getRevealedCapsules(storage)
        added == pseudoRevealed(getList(storage, "timeCapsules"), existingRevealed, at, 1)
    IN  Returned(Len(added),
                 IF Len(added) > 0
                   THEN setItem(storage, REVEALED_CAPSULES_KEY, existingRevealed \o added)
                 ELSE storage)

addUnlockedCapsulesAsPseudoRevealed ==
    /\ localStorage' = addUnlockedCapsulesAsPseudoRevealedIn(localStorage, dateNow).storage
    /\ UNCHANGED <<calls, dateNow, outsideReveal>>

\* Array.prototype.find over the recovery kits, null when none matches.
findKit(recoveryKits, Matches(_)) ==
    LET found == {i \in 1..Len(recoveryKits) : Matches(recoveryKits[i])} IN
    IF found = {} THEN null
    ELSE recoveryKits[CHOOSE i \in found : \A j \in found : i <= j]

\* String.prototype.includes
RECURSIVE includesFrom(_, _, _)
includesFrom(str, part, i) ==
    IF i + Len(part) - 1 > Len(str) THEN FALSE
    ELSE SubSeq(str, i, i + Len(part) - 1) = part \/ includesFrom(str, part, i + 1)

includes(str, part) == includesFrom(str, part, 1)

\* The kit a sweep picks for a capsule: immediateRevealAllUnlocked by capsule id,
\* then by address, then by an address that contains a numeric id; the other two
\* sweeps by capsule id or address.
scannerKit(scan, capsule, recoveryKits) ==
    LET byId == findKit(recoveryKits, LAMBDA kit : kit.capsuleId = capsule.id)
        byCid == findKit(recoveryKits, LAMBDA kit : kit.ipfsCid = capsule.ipfsHash)
        loose == findKit(recoveryKits,
                         LAMBDA kit : kit.ipfsCid # "" /\ includes(kit.ipfsCid, capsule.id))
    IN  IF scan = "immediateRevealAllUnlocked"
          THEN IF byId # null THEN byId
               ELSE IF byCid # null THEN byCid
               ELSE IF IsNumericId(capsule.id) THEN loose ELSE null
        ELSE findKit(recoveryKits,
                     LAMBDA kit : kit.capsuleId = capsule.id \/ kit.ipfsCid = capsule.ipfsHash)

Scans == {"immediateRevealAllUnlocked", "checkAndRevealUnlockedCapsules",
          "autoRevealUnlockedCapsulesForSocial"}

\* The call of revealCapsule a sweep makes for a capsule with the kit it found.
scannerCall(scan, capsule, kit, userAddress) ==
    Call("revealCapsule", scan, capsule.id, kit,
         IF scan = "checkAndRevealUnlockedCapsules" \/ capsule.creator = ""
           THEN userAddress ELSE capsule.creator,
         capsule.unlockTime,
         IF scan = "immediateRevealAllUnlocked"
           THEN "Automatically revealed when social feed loaded"
         ELSE "Automatically revealed when unlock time was reached")

\* The test a sweep makes before it calls revealCapsule for a capsule.
scannerEligible(scan, storage, at, capsule) ==
    /\ isNaturallyUnlocked(capsule, at)
    /\ scan = "autoRevealUnlockedCapsulesForSocial" => capsule.visibility # "private"
    /\ getRevealedCapsule(storage, capsule.id) = null
    /\ scannerKit(scan, capsule, getList(storage, "capsuleKeys")) # null

\* One iteration of a sweep's loop: the capsule is unlocked and not in the index,
\* a kit is found, and the sweep calls revealCapsule for it.
scannerReveal(scan, k, userAddress) ==
    LET capsule == getList(localStorage, "timeCapsules")[k] IN
    /\ scannerEligible(scan, localStorage, dateNow, capsule)
    /\ startCall(scannerCall(scan, capsule,
                             scannerKit(scan, capsule, getList(localStorage, "capsuleKeys")),
                             userAddress))

\* A call of revealCapsule run from its start to its return with no other task in
\* between, over the storage it finds, at time at; network is what a download from
\* an address that is not local gives.
runRevealCapsule(storage, at, call, network) ==
    LET cid == getCapsuleIPFSHash(storage, call.capsuleId)
        downloaded == IF startsWith(cid, "local_") THEN downloadLocal(storage, cid)
                      ELSE network
        decrypted == decryptCapsuleContent(downloaded.value, call.recoveryKit)
        stored(data) ==
            Returned(TRUE, storeRevealedCapsule(storage,
                revealedRecord(call.capsuleId, data, at, call.userAddress,
                               call.originalUnlockTime, call.revealMessage)))
    IN  IF revealService_revealCapsuleErr(storage, call.capsuleId, call.recoveryKit) # "ok"
          THEN Returned(FALSE, storage)
        ELSE IF cid = "" THEN Returned(FALSE, storage)
        ELSE IF startsWith(cid, "mock_")
          THEN stored(mockDecryptedContent(at, call.userAddress))
        ELSE IF ~downloaded.ok THEN Returned(FALSE, storage)
        ELSE IF ~decrypted.ok THEN Returned(FALSE, storage)
        ELSE IF ~isUserAuthorized(decrypted.value, call.userAddress)
          THEN Returned(FALSE, storage)
        ELSE stored(decrypted.value)

\* The loop of one sweep from capsule k on, run alone: the storage it leaves and
\* the count it returns.
RECURSIVE sweepFrom(_, _, _, _, _, _)
sweepFrom(scan, storage, at, userAddress, k, count) ==
    LET storedCapsules == getList(storage, "timeCapsules") IN
    IF k > Len(storedCapsules) THEN Returned(count, storage)
    ELSE LET capsule == storedCapsules[k]
             revealResult ==
                 IF scannerEligible(scan, storage, at, capsule)
                   THEN runRevealCapsule(storage, at,
                            scannerCall(scan, capsule,
                                scannerKit(scan, capsule, getList(storage, "capsuleKeys")),
                                userAddress),
                            Throws("Failed to download from IPFS"))
                 ELSE Returned(FALSE, storage)
         IN  sweepFrom(scan, revealResult.storage, at, userAddress, k + 1,
                       IF revealResult.returns THEN count + 1 ELSE count)

\* checkForUnlockedCapsules of the social page, run alone: the three sweeps in
\* turn, then the pseudo-reveal; returns totalAutoRevealed.
checkForUnlockedCapsulesIn(storage, at, address) ==
    LET immediate == sweepFrom("immediateRevealAllUnlocked", storage, at, address, 1, 0)
        user == sweepFrom("checkAndRevealUnlockedCapsules", immediate.storage, at,
                          address, 1, 0)
        social == sweepFrom("autoRevealUnlockedCapsulesForSocial", user.storage, at,
                            address, 1, 0)
        pseudo == addUnlockedCapsulesAsPseudoRevealedIn(social.storage, at)
    IN  Returned(immediate.returns + user.returns + social.returns + pseudo.returns,
                 pseudo.storage)

\* A run of checkForUnlockedCapsules that no other task overlaps.
checkForUnlockedCapsules(address) ==
    /\ \A i \in 1..Len(calls) : calls[i].pc = "returned"
    /\ localStorage' = checkForUnlockedCapsulesIn(localStorage, dateNow, address).storage
    /\ UNCHANGED <<calls, dateNow, outsideReveal>>

\* Date.now() when the page is opened, one second before the capsules unlock.
PageOpenedAt == 59000

\* A second of the browser's clock passes.
Tick ==
    /\ dateNow < PageOpenedAt + MaxTicks * 1000
    /\ dateNow' = dateNow + 1000
    /\ UNCHANGED <<localStorage, calls, outsideReveal>>

\* ------------------------------------------------------- the reveal page
\* The connected wallets, as wagmi gives them (checksummed).
Wallet1 == "0xA11cE"
Wallet2 == "0xB0b"

\* The bundle the create page seals (part_007): title, description, creator.
Bundle ==
    [title |-> "To the future", description |-> "open in a minute", files |-> <<>>,
     createdAt |-> 0, creator |-> Wallet1]

\* What the create page uploads: the base64 text of the sealed bundle.
encryptedContentBase64 == <<"base64", encrypt(Bundle, "key-a", "iv-a").encryptedContent>>

\* A capsule as TimeCapsuleContract.createCapsule keeps it in 'timeCapsules'.
StoredCapsule(id, title, description, unlockTime, visibility, ipfsHash) ==
    [id |-> id, creator |-> "user123", title |-> title, description |-> description,
     unlockTime |-> unlockTime, createdAt |-> 0, isUnlocked |-> FALSE,
     isRevealed |-> FALSE, visibility |-> visibility, ipfsHash |-> ipfsHash]

\* Two capsules that unlock at second 60: one whose sealed bundle is in the local
\* cache, one with a mock address.
StoredCapsules ==
    <<StoredCapsule("1001", "To the future", "open in a minute", 60, "1",
                    mockCid(1001, "k3x9qa")),
      StoredCapsule("1002", "Test", "mock", 60, "1", "mock_1002")>>

\* cryptoService.createRecoveryKit(encryptedData, capsuleId), the kit the page
\* hands to the user.
createRecoveryKit(encryptedData, capsuleId) ==
    [key |-> arrayBufferToBase64(encryptedData.key),
     iv |-> arrayBufferToBase64(encryptedData.iv),
     capsuleId |-> capsuleId, ipfsCid |-> ""]

PageKit == createRecoveryKit(encrypt(Bundle, "key-a", "iv-a"), "1001")

\* What the reveal page is given: the capsule, the kit file, the wallet, a message.
\* The right kit; a kit with another key; a kit without key; the mock capsule with
\* any kit; an id that is no number and not the kit's.
RevealInputs ==
    {[capsuleId |-> "1001", kit |-> PageKit, userAddress |-> Wallet1,
      revealMessage |-> "undefined"],
     [capsuleId |-> "1001", kit |-> [PageKit EXCEPT !.key = arrayBufferToBase64("key-b")],
      userAddress |-> Wallet1, revealMessage |-> "undefined"],
     [capsuleId |-> "1001", kit |-> [PageKit EXCEPT !.key = ""],
      userAddress |-> Wallet1, revealMessage |-> "undefined"],
     [capsuleId |-> "1002", kit |-> PageKit, userAddress |-> Wallet2,
      revealMessage |-> "Early!"],
     [capsuleId |-> "capsule-7", kit |-> PageKit, userAddress |-> Wallet1,
      revealMessage |-> "undefined"]}

\* What the preview is given: the right kit with the wallet in lower case, the
\* mock capsule, a capsule this browser does not know.
PreviewInputs ==
    {[capsuleId |-> "1001", kit |-> PageKit, userAddress |-> toLowerCase(Wallet1)],
     [capsuleId |-> "1002", kit |-> PageKit, userAddress |-> Wallet2],
     [capsuleId |-> "4040", kit |-> PageKit, userAddress |-> Wallet1]}

\* The kits in 'capsuleKeys': none, or the kits of the two capsules filed under
\* the address of their content.
StoredKits ==
    {<<>>,
     <<[key |-> arrayBufferToBase64("key-a"), iv |-> arrayBufferToBase64("iv-a"),
        capsuleId |-> "pending", ipfsCid |-> mockCid(1001, "k3x9qa")],
       [key |-> arrayBufferToBase64("key-b"), iv |-> arrayBufferToBase64("iv-a"),
        capsuleId |-> "pending", ipfsCid |-> "mock_1002"]>>}

\* What the network gives for an address that is not a local one.
NetworkOutcomes == {Throws("Failed to download from IPFS")}

\* The ids the feed likes and comments: the two capsules and one it never held.
FeedIds == {"1001", "1002", "4040"}

RevealInit ==
    /\ Init
    /\ \E kits \in StoredKits :
          localStorage =
              fallbackToLocalStorage(
                  [k \in {"timeCapsules", "capsuleKeys"} |->
                      IF k = "timeCapsules" THEN StoredCapsules ELSE kits],
                  encryptedContentBase64, "capsule-content.enc", 1001, "k3x9qa").storage
    /\ dateNow = PageOpenedAt
    /\ calls = <<>>
    /\ pinataJWT = ""
    /\ ipfs = NoIpfsCalls
    /\ dialog = NoDialog

RevealNext ==
    \/ \E in \in RevealInputs :
          revealService_revealCapsule(in.capsuleId, in.kit, in.userAddress, 60,
                                      in.revealMessage)
    \/ \E in \in PreviewInputs :
          previewCapsule(in.capsuleId, in.kit, in.userAddress, 60)
    \/ \E scan \in Scans, k \in 1..Len(StoredCapsules), userAddress \in {Wallet1, Wallet2} :
          scannerReveal(scan, k, userAddress)
    \/ \E i \in 1..Len(calls) : afterGetCapsuleIPFSHash(i)
    \/ \E i \in 1..Len(calls) :
          \E outcome \in (IF calls[i].download = null THEN NetworkOutcomes
                          ELSE {calls[i].download}) : afterDownload(i, outcome)
    \/ \E i \in 1..Len(calls) : afterDecryptCapsuleContent(i)
    \/ addUnlockedCapsulesAsPseudoRevealed
    \/ \E address \in {Wallet1, Wallet2} : checkForUnlockedCapsules(address)
    \/ \E capsuleId \in FeedIds : likeCapsule(capsuleId)
    \/ \E capsuleId \in FeedIds : addComment(capsuleId, Wallet2, "wow")
    \/ Tick

\* The reveal page and the sweeps of the social feed over one browser's storage.
RevealSpec == RevealInit /\ [][RevealNext]_vars

\* -------------------------------------------------------------------- C12
\* C12: a record for a capsule id is in the public index only if a revealCapsule
\* call for that id ran to its end with a recovery kit that passed validation and,
\* when the content is not a mock one, opened the downloaded blob; nothing else
\* adds a record.
C12_RevealedWithCredential(capsuleId) ==
    \E i \in 1..Len(calls) :
        /\ calls[i].op = "revealCapsule"
        /\ calls[i].capsuleId = capsuleId
        /\ validateRecoveryKit(calls[i].recoveryKit).isValid
        /\ calls[i].pc = "returned"
        /\ calls[i].result.success
        /\ ~startsWith(calls[i].ipfsCid, "mock_") => calls[i].decrypted.ok

C12_IndexOnlyByCredential ==
    LET revealed == getRevealedCapsules(localStorage) IN
    \A k \in 1..Len(revealed) : C12_RevealedWithCredential(revealed[k].id)

\* -------------------------------------------------------------------- C13
\* C13: a revealCapsule call made for an id that has a record in the public index
\* returns a failure at once, with the error 'This capsule has already been
\* revealed' whenever its kit passes validation and the id check, and the step
\* leaves localStorage, and so the stored record, as it was.
C13_Step ==
    (/\ Len(calls') = Len(calls) + 1
     /\ calls'[Len(calls')].op = "revealCapsule"
     /\ getRevealedCapsule(localStorage, calls'[Len(calls')].capsuleId) # null)
    => LET call == calls'[Len(calls')] IN
       /\ call.pc = "returned"
       /\ ~call.result.success
       /\ (/\ validateRecoveryKit(call.recoveryKit).isValid
           /\ (call.recoveryKit.capsuleId = call.capsuleId \/ IsNumericId(call.capsuleId)))
          => call.result.error = "This capsule has already been revealed"
       /\ localStorage' = localStorage

C14_Records(capsuleId) ==
    LET revealed == getRevealedCapsules(localStorage) IN
    Cardinality({k \in 1..Len(revealed) : revealed[k].id = capsuleId})

C14_BothSucceeded(i, j) ==
    /\ i # j
    /\ calls[i].op = "revealCapsule" /\ calls[j].op = "revealCapsule"
    /\ calls[i].capsuleId = calls[j].capsuleId
    /\ calls[i].recoveryKit = calls[j].recoveryKit
    /\ calls[i].pc = "returned" /\ calls[j].pc = "returned"
    /\ calls[i].result.success /\ calls[j].result.success

C14_ExactlyOneRecord ==
    /\ \A capsuleId \in {"1001", "1002"} : C14_Records(capsuleId) <= 1
    /\ \A i, j \in 1..Len(calls) :
           C14_BothSucceeded(i, j) => C14_Records(calls[i].capsuleId) = 1

C14_Witness ==
    \E i, j \in 1..Len(calls) :
        /\ C14_BothSucceeded(i, j)
        /\ calls[i].caller = "page" /\ calls[j].caller = "page"
        /\ ~startsWith(calls[i].ipfsCid, "mock_")

\* -------------------------------------------------------------------- C15
\* C15: of a sweep's revealCapsule call and a manual one for the same capsule id
\* that run concurrently, exactly one returns success; and the record the first of
\* them wrote keeps its revealedAt, revealedBy and revealMessage, its likes never
\* decrease and its comments are never dropped.
C15_OneSucceeds ==
    \A i, j \in 1..Len(calls) :
        (/\ calls[i].op = "revealCapsule" /\ calls[j].op = "revealCapsule"
         /\ calls[i].caller \in Scans /\ calls[j].caller = "page"
         /\ calls[i].capsuleId = calls[j].capsuleId
         /\ calls[i].pc = "returned" /\ calls[j].pc = "returned")
        => ~(calls[i].result.success /\ calls[j].result.success)

\* A sweep's call and a manual call for the capsule exist, and one has written.
C15_WrittenByCall(capsuleId) ==
    \E i, j \in 1..Len(calls) :
        /\ calls[i].op = "revealCapsule" /\ calls[j].op = "revealCapsule"
        /\ calls[i].capsuleId = capsuleId /\ calls[j].capsuleId = capsuleId
        /\ calls[i].caller \in Scans /\ calls[j].caller = "page"
        /\ \E w \in {i, j} : calls[w].pc = "returned" /\ calls[w].result.success

C15_RecordKept ==
    LET revealed == getRevealedCapsules(localStorage)
        revealedAfter == getRevealedCapsules(localStorage')
    IN  \A k \in {n \in 1..Len(revealed) : C15_WrittenByCall(revealed[n].id)} :
            LET kAfter == findIndex(revealedAfter, revealed[k].id)
                before == revealed[k].revealMetadata
            IN  /\ kAfter # 0
                /\ LET after == revealedAfter[kAfter].revealMetadata IN
                   /\ after.revealedAt = before.revealedAt
                   /\ after.revealedBy = before.revealedBy
                   /\ after.revealMessage = before.revealMessage
                   /\ after.socialInteractions.likes >= before.socialInteractions.likes
                   /\ Len(after.socialInteractions.comments)
                          >= Len(before.socialInteractions.comments)

C15_SecondWriterLoses == []C15_OneSucceeds /\ [][C15_RecordKept]_vars

\* -------------------------------------------------------------------- C16
\* C16: no step of a previewCapsule call changes localStorage, and a preview of a
\* stored capsule with a kit that opens its content (or of a mock capsule) by its
\* creator returns success whatever the clock shows and whether or not the
\* capsule is already in the public index.
C16_PreviewStep ==
    \/ Len(calls') > Len(calls) /\ calls'[Len(calls')].op = "previewCapsule"
    \/ \E i \in 1..Len(calls) : calls[i].op = "previewCapsule" /\ calls'[i] # calls[i]

C16_CanOpen(call) ==
    LET ipfsCid == getCapsuleIPFSHash(localStorage, call.capsuleId)
        downloaded == downloadLocal(localStorage, ipfsCid)
    IN  /\ validateRecoveryKit(call.recoveryKit).isValid
        /\ ipfsCid # ""
        /\ \/ startsWith(ipfsCid, "mock_")
           \/ /\ downloaded.ok
              /\ decryptCapsuleContent(downloaded.value, call.recoveryKit).ok
              /\ isUserAuthorized(decryptCapsuleContent(downloaded.value,
                                                        call.recoveryKit).value,
                                  call.userAddress)

C16_PreviewSucceeds ==
    \A i \in 1..Len(calls) :
        (calls[i].op = "previewCapsule" /\ calls[i].pc = "returned" /\ C16_CanOpen(calls[i]))
        => /\ calls[i].result.success
           /\ calls[i].result.data.id = calls[i].capsuleId

C16_PreviewNeverWrites ==
    [](C16_PreviewSucceeds) /\ [][C16_PreviewStep => localStorage' = localStorage]_vars

\* A preview succeeded before the unlock time for a capsule that is in the index.
C16_Witness ==
    \E i \in 1..Len(calls) :
        /\ calls[i].op = "previewCapsule" /\ calls[i].pc = "returned"
        /\ calls[i].result.success
        /\ calls[i].result.data.revealMetadata.revealedAt < calls[i].originalUnlockTime * 1000
        /\ getRevealedCapsule(localStorage, calls[i].capsuleId) # null
        /\ ~startsWith(calls[i].ipfsCid, "mock_")

\* ============================================================ IPFSService
\* Uploads one run of the page makes.
MaxUploads == 2

\* The variables no step of the IPFS service touches.
outsideIpfs == <<now, ledger, last, created, refWrites, calls, pinataJWT, dialog>>

\* The requests download(cid) makes for a network address, in the order of its
\* code: three CORS proxies, Pinata's pin list and its authenticated gateway, four
\* public gateways, two alternative request modes of the Pinata gateway.
Endpoints ==
    <<[name |-> "api.allorigins.win", kind |-> "proxy"],
      [name |-> "cors-anywhere.herokuapp.com", kind |-> "proxy"],
      [name |-> "corsproxy.io", kind |-> "proxy"],
      [name |-> "Pinata pin list", kind |-> "pinList"],
      [name |-> "Pinata authenticated", kind |-> "authenticated"],
      [name |-> "Pinata Public", kind |-> "gateway"],
      [name |-> "Cloudflare", kind |-> "gateway"],
      [name |-> "Dweb.link", kind |-> "gateway"],
      [name |-> "Dweb.link Subdomain", kind |-> "gateway"],
      [name |-> "No-CORS mode", kind |-> "alternative"],
      [name |-> "Same-origin mode", kind |-> "alternative"]>>

\* Only the public gateways are raced against a timer (15 seconds).
hasTimeout(e) == Endpoints[e].kind = "gateway"

FirstGateway == CHOOSE e \in 1..Len(Endpoints) :
    /\ Endpoints[e].kind = "gateway"
    /\ \A f \in 1..(e - 1) : Endpoints[f].kind # "gateway"

\* The request made after the one to endpoint e failed, 0 when none is left:
\* strategy 2 is skipped without a token.
nextEndpoint(e, jwt) ==
    IF e = Len(Endpoints) THEN 0
    ELSE IF Endpoints[e].kind \in {"pinList", "authenticated"} THEN FirstGateway
    ELSE IF Endpoints[e + 1].kind = "pinList" /\ jwt = "" THEN FirstGateway
    ELSE e + 1

\* What the network keeps under a content address.
Pinned(cid) == <<"text", "content of " \o cid>>

\* What an endpoint may answer: a thrown fetch, an error status, or 200 with a
\* body: the content or an empty text, for a proxy wrapped in JSON or raw, for
\* the pin list the number of rows.
Response(status, json, body, rows) ==
    [status |-> status, json |-> json, body |-> body, rows |-> rows]

Responses(e, cid) ==
    {Response("throws", FALSE, <<"text", "">>, 0), Response("404", FALSE, <<"text", "">>, 0)}
    \cup (IF Endpoints[e].kind = "pinList"
            THEN {Response("200", TRUE, <<"text", "">>, rows) : rows \in {0, 1}}
          ELSE {Response("200", json, body, 0) :
                   json \in (IF Endpoints[e].kind = "proxy" THEN {TRUE, FALSE} ELSE {FALSE}),
                   body \in {Pinned(cid), <<"text", "">>}})

\* JSON.stringify(data) of a proxy answer whose contents are empty.
stringifiedProxyData == <<"text", "{\"contents\":\"\"}">>

\* The suggestions a failed download leaves its caller with: downloadWithFallbacks
\* returns them, download names its own in the message of the error it throws
\* after the last request.
suggestionsOf(via, exhausted, jwt) ==
    IF via = "downloadWithFallbacks"
      THEN <<"Try opening directly", "Copy this URL and open in a new tab", "Or use curl/wget">>
           \o (IF jwt # "" THEN <<"Try authenticated Pinata">> ELSE <<>>)
    ELSE IF exhausted
      THEN <<"Wait 5-10 minutes for better IPFS propagation",
             "Try accessing the content directly",
             "Use a different browser or disable CORS temporarily for testing",
             "Upload content again and try immediately">>
    ELSE <<>>

\* The download ends: it returns content, or it throws.
returnContent(d, content) ==
    [d EXCEPT !.status = "returned", !.result = content, !.silent = FALSE]

throwError(d, message, exhausted, jwt) ==
    [d EXCEPT !.status = "thrown", !.result = <<"error", message>>, !.silent = FALSE,
              !.suggestions = suggestionsOf(d.via, exhausted, jwt)]

\* The download goes on to endpoint e, or throws when none is left.
request(d, e, jwt) ==
    IF e = 0
      THEN throwError(d, "IPFS download failed after trying multiple strategies", TRUE, jwt)
    ELSE [d EXCEPT !.status = "awaiting", !.at = e, !.silent = FALSE, !.log = Append(@, e)]

\* What download does with the answer of the endpoint it awaits.
onResponse(d, response, jwt) ==
    LET e == d.at
        kind == Endpoints[e].kind
        ok == response.status = "200"
    IN  IF ~ok THEN request(d, nextEndpoint(e, jwt), jwt)
        ELSE IF kind = "proxy"
          THEN IF ~response.json THEN request(d, nextEndpoint(e, jwt), jwt)
               ELSE IF ~IsEmptyString(response.body) THEN returnContent(d, response.body)
               ELSE returnContent(d, stringifiedProxyData)
        ELSE IF kind = "pinList"
          THEN IF response.rows > 0 THEN request(d, e + 1, jwt)
               ELSE request(d, nextEndpoint(e, jwt), jwt)
        ELSE returnContent(d, response.body)

\* uploadString(content, fileName): uploadToPinata with what the pinning endpoint
\* answers; a fallback address is made of Date.now() and Math.random(), and the
\* clock has moved on before the next upload.
uploadString(content, fileName, response, randomId) ==
    LET upload == uploadToPinata(localStorage, pinataJWT, content, fileName, response,
                                 dateNow, randomId)
    IN
    /\ Len(ipfs.uploads) < MaxUploads
    /\ localStorage' = upload.storage
    /\ dateNow' = dateNow + 1
    /\ ipfs' = [ipfs EXCEPT !.uploads =
                   Append(@, [result |-> upload.result, content |-> content,
                              configured |-> pinataJWT # "", status |-> response.status])]
    /\ UNCHANGED outsideIpfs

\* download(cid), called directly or through downloadWithFallbacks (via): an empty
\* address throws, a local_ address is answered from localStorage, any other
\* address starts the requests.
download(cid, via) ==
    LET d == [NoIpfsCalls.download EXCEPT !.cid = cid, !.via = via]
        stored == downloadLocal(localStorage, cid)
    IN
    /\ ipfs.download.status # "awaiting"
    /\ ipfs' = [ipfs EXCEPT !.download =
                   IF cid = "" THEN throwError(d, "Invalid CID: CID cannot be empty", FALSE, pinataJWT)
                   ELSE IF startsWith(cid, "local_")
                     THEN IF stored.ok THEN returnContent(d, stored.value)
                          ELSE throwError(d, stored.value, FALSE, pinataJWT)
                   ELSE request(d, 1, pinataJWT)]
    /\ UNCHANGED <<localStorage, dateNow, outsideIpfs>>

\* The awaited endpoint answers.
Respond(response) ==
    /\ ipfs.download.status = "awaiting"
    /\ ~ipfs.download.silent
    /\ ipfs' = [ipfs EXCEPT !.download = onResponse(@, response, pinataJWT)]
    /\ UNCHANGED <<localStorage, dateNow, outsideIpfs>>

\* The awaited endpoint is one that will never answer.
NeverResponds ==
    /\ ipfs.download.status = "awaiting"
    /\ ~ipfs.download.silent
    /\ ipfs' = [ipfs EXCEPT !.download.silent = TRUE]
    /\ UNCHANGED <<localStorage, dateNow, outsideIpfs>>

\* The 15 second timer of a public gateway's request fires first: the race rejects
\* and the loop goes on.
Timeout ==
    /\ ipfs.download.status = "awaiting"
    /\ hasTimeout(ipfs.download.at)
    /\ ipfs' = [ipfs EXCEPT !.download =
                   request(@, nextEndpoint(ipfs.download.at, pinataJWT), pinataJWT)]
    /\ UNCHANGED <<localStorage, dateNow, outsideIpfs>>

\* What the pages publish: IPFSDemo a text that is not blank, the create page the
\* base64 text of a ciphertext.
PublishedContents == {<<"text", "hello ipfs">>, encryptedContentBase64}

\* The addresses a download is asked for: those the uploads returned, a pinned
\* one, a local one nothing was stored under, the empty one.
DownloadCids ==
    {ipfs.uploads[u].result.cid : u \in 1..Len(ipfs.uploads)}
    \cup {"bafkreibzn", mockCid(7, "nostor"), ""}

IpfsInit ==
    /\ Init
    /\ localStorage = <<>>
    /\ dateNow = 0
    /\ calls = <<>>
    /\ pinataJWT \in {"", "jwt"}
    /\ ipfs = NoIpfsCalls
    /\ dialog = NoDialog

IpfsNext ==
    \/ \E content \in PublishedContents, response \in PinResponses, randomId \in RandomIds :
          uploadString(content, "content.txt", response, randomId)
    \/ \E cid \in DownloadCids, via \in {"download", "downloadWithFallbacks"} :
          download(cid, via)
    \/ /\ ipfs.download.status = "awaiting"
       /\ \E response \in Responses(ipfs.download.at, ipfs.download.cid) : Respond(response)
    \/ NeverResponds
    \/ Timeout

\* Uploads and downloads of one browser through the IPFS service.
IpfsSpec == IpfsInit /\ [][IpfsNext]_vars

\* -------------------------------------------------------------------- C17
\* C17: a download of an address that starts with local_ makes no request and is
\* never left waiting: it has returned exactly what was published under the
\* address when localStorage has an entry for it, and has thrown the not-found
\* error when it has none.
C17_LocalFromCache ==
    LET d == ipfs.download
        key == "ipfs_" \o d.cid
    IN  (d.status # "idle" /\ startsWith(d.cid, "local_")) =>
        /\ d.status \in {"returned", "thrown"}
        /\ d.log = <<>>
        /\ IF key \in DOMAIN localStorage
             THEN /\ d.status = "returned"
                  /\ d.result = localStorage[key]
                  /\ \A u \in 1..Len(ipfs.uploads) :
                         ipfs.uploads[u].result.cid = d.cid => d.result = ipfs.uploads[u].content
           ELSE /\ d.status = "thrown"
                /\ d.result = <<"error", "Content not found in local storage">>

\* A local address gave back the sealed bundle that was published under it.
C17_Witness ==
    /\ ipfs.download.status = "returned"
    /\ startsWith(ipfs.download.cid, "local_")
    /\ ipfs.download.result = encryptedContentBase64

\* -------------------------------------------------------------------- C18
\* C18: an uploadString made without a token, or answered by the pinning endpoint
\* with an error status or a thrown fetch, returned an address that starts with
\* local_ (no address of the network does), the content is in localStorage under
\* it, and a download of the address gives exactly the content.
C18_FellBack(upload) == ~upload.configured \/ upload.status # "200"

C19_InOrder ==
    \A k \in 1..(Len(ipfs.download.log) - 1) : ipfs.download.log[k] < ipfs.download.log[k + 1]

C19_EachTimed ==
    \A k \in 1..Len(ipfs.download.log) : hasTimeout(ipfs.download.log[k])

C19_NeverEmpty ==
    ipfs.download.status = "returned" =>
        /\ ~IsEmptyString(ipfs.download.result)
        /\ ipfs.download.log # <<>> => ipfs.download.result = Pinned(ipfs.download.cid)

C19_RetrievalOrder == C19_InOrder /\ C19_EachTimed /\ C19_NeverEmpty

\* -------------------------------------------------------------------- C20
\* C20: when only the last request succeeds download returns its content; when
\* every request fails, by an error status, a thrown fetch or no answer at all,
\* the download is not left waiting for ever and ends with a failure that carries
\* suggestions.
C20_LastSucceeds ==
    (/\ ipfs.download.status = "returned"
     /\ ipfs.download.log # <<>>
     /\ ipfs.download.at = Len(Endpoints)
     /\ ~IsEmptyString(ipfs.download.result))
    => ipfs.download.result = Pinned(ipfs.download.cid)

C20_Waiting ==
    /\ ipfs.download.status = "awaiting"
    /\ ipfs.download.silent
    /\ ~hasTimeout(ipfs.download.at)

C20_FailureCarriesSuggestions ==
    (ipfs.download.status = "thrown" /\ ipfs.download.log # <<>>)
    => Len(ipfs.download.suggestions) > 0

C20_FallbackExhaustive ==
    C20_LastSucceeds /\ ~C20_Waiting /\ C20_FailureCarriesSuggestions

\* -------------------------------------------------------------------- C21
\* What a record of the index holds besides its likes and comments.
C21_Sealed(record) ==
    [id |-> record.id, originalData |-> record.originalData,
     revealedAt |-> record.revealMetadata.revealedAt,
     revealedBy |-> record.revealMetadata.revealedBy,
     isEarlyReveal |-> record.revealMetadata.isEarlyReveal,
     originalUnlockTime |-> record.revealMetadata.originalUnlockTime,
     revealMessage |-> record.revealMetadata.revealMessage]

C21_Likes(record) == record.revealMetadata.socialInteractions.likes
C21_Comments(record) == record.revealMetadata.socialInteractions.comments

\* Storage after differs from storage before at most in the index, and the index
\* at most in the likes and comments of the record at place capsuleIndex.
C21_OnlySocialOf(before, after, capsuleIndex) ==
    LET revealed == getRevealedCapsules(before)
        revealedAfter == getRevealedCapsules(after)
    IN  /\ DOMAIN after = DOMAIN before
        /\ \A key \in DOMAIN before \ {REVEALED_CAPSULES_KEY} : after[key] = before[key]
        /\ Len(revealedAfter) = Len(revealed)
        /\ \A k \in 1..Len(revealed) :
              IF k = capsuleIndex
                THEN C21_Sealed(revealedAfter[k]) = C21_Sealed(revealed[k])
              ELSE revealedAfter[k] = revealed[k]

\* likeCapsule adds exactly one like to the record of its id and nothing else;
\* addComment appends exactly one comment and nothing else; for an id that is not
\* in the index both return false and leave the storage as it is.
C21_LikeAndCommentFrame ==
    \A capsuleId \in FeedIds :
        LET revealed == getRevealedCapsules(localStorage)
            capsuleIndex == findIndex(revealed, capsuleId)
            liked == likeCapsuleIn(localStorage, capsuleId)
            commented == addCommentIn(localStorage, dateNow, capsuleId, Wallet2, "wow")
            likedRecord == getRevealedCapsules(liked.storage)[capsuleIndex]
            commentedRecord == getRevealedCapsules(commented.storage)[capsuleIndex]
        IN  IF capsuleIndex = 0
              THEN /\ ~liked.returns /\ liked.storage = localStorage
                   /\ ~commented.returns /\ commented.storage = localStorage
            ELSE /\ liked.returns /\ commented.returns
                 /\ C21_OnlySocialOf(localStorage, liked.storage, capsuleIndex)
                 /\ C21_Likes(likedRecord) = C21_Likes(revealed[capsuleIndex]) + 1
                 /\ C21_Comments(likedRecord) = C21_Comments(revealed[capsuleIndex])
                 /\ C21_OnlySocialOf(localStorage, commented.storage, capsuleIndex)
                 /\ C21_Likes(commentedRecord) = C21_Likes(revealed[capsuleIndex])
                 /\ Len(C21_Comments(commentedRecord))
                        = Len(C21_Comments(revealed[capsuleIndex])) + 1
                 /\ SubSeq(C21_Comments(commentedRecord), 1,
                           Len(C21_Comments(revealed[capsuleIndex])))
                        = C21_Comments(revealed[capsuleIndex])
                 /\ commentedRecord.id = capsuleId

\* No step changes a record the index holds other than by adding likes or
\* appending comments.
C21_RecordKept ==
    LET revealed == getRevealedCapsules(localStorage) IN
    \A k \in 1..Len(revealed) :
        LET after == getRevealedCapsule(localStorage', revealed[k].id) IN
        /\ after # null
        /\ C21_Sealed(after) = C21_Sealed(revealed[k])
        /\ C21_Likes(after) >= C21_Likes(revealed[k])
        /\ Len(C21_Comments(after)) >= Len(C21_Comments(revealed[k]))
        /\ SubSeq(C21_Comments(after), 1, Len(C21_Comments(revealed[k])))
               = C21_Comments(revealed[k])

\* C21: the index is mutable only through likeCapsule and addComment: likeCapsule
\* raises only the likes of the record of its id, by exactly 1, addComment only
\* appends one comment to it; the sealed content and the reveal metadata of that
\* record and every other record stay as they are; for an id that is not in the
\* index both return false and change nothing.
C21_IndexMutableOnlySocially == []C21_LikeAndCommentFrame /\ [][C21_RecordKept]_vars

\* ====================================================== the reveal dialog
\* EarlyRevealModal (part_013) as the reveal page mounts it (part_008:248-257):
\* a new instance, with new state, each time the page shows it.

\* What the user types into the two text areas.
ReasonTexts == {"", "  ", "Her birthday "}
MessageTexts == {"", "Surprise"}

\* String.prototype.trim, for texts padded with spaces.
RECURSIVE trim(_)
trim(text) ==
    IF text = "" THEN ""
    ELSE IF SubSeq(text, 1, 1) = " " THEN trim(SubSeq(text, 2, Len(text)))
    ELSE IF SubSeq(text, Len(text), Len(text)) = " "
      THEN trim(SubSeq(text, 1, Len(text) - 1))
    ELSE text

\* The capsule of the page's URL and the connected wallet.
DialogProps ==
    {[capsuleId |-> "1001", address |-> Wallet1],
     [capsuleId |-> "1002", address |-> Wallet2]}

\* const isEarlyReveal = Date.now() < originalUnlockTime * 1000, at each render.
isEarlyReveal(at, originalUnlockTime) == at < originalUnlockTime * 1000

outsideDialog == <<localStorage, dateNow, outsideService>>

\* The effect of part_013:108-112 after the state d was committed: at the preview
\* step without content, decryptContent calls previewCapsule and awaits it.
decryptContent(d) ==
    IF d.step = "preview" /\ d.decryptedContent = null
      THEN /\ invoke(Call("previewCapsule", "dialog", d.capsuleId, PageKit, d.address,
                          60, "undefined"))
           /\ dialog' = [d EXCEPT !.error = "", !.awaiting = Len(calls) + 1]
    ELSE /\ dialog' = d
         /\ UNCHANGED calls

\* The page's Reveal Capsule button: setShowRevealModal(true) mounts the dialog.
openDialog(capsuleId, address) ==
    /\ ~dialog.isOpen
    /\ decryptContent([NoDialog EXCEPT
           !.isOpen = TRUE, !.capsuleId = capsuleId, !.address = address,
           !.step = IF isEarlyReveal(dateNow, 60) THEN "reason" ELSE "preview"])
    /\ UNCHANGED outsideDialog

\* The X button, the backdrop and Cancel: the page unmounts the dialog.
onClose ==
    /\ dialog.isOpen
    /\ dialog' = NoDialog
    /\ UNCHANGED <<calls, outsideDialog>>

setEarlyRevealReason(text) ==
    /\ dialog.isOpen /\ dialog.step = "reason"
    /\ isEarlyReveal(dateNow, 60)
    /\ dialog' = [dialog EXCEPT !.earlyRevealReason = text]
    /\ UNCHANGED <<calls, outsideDialog>>

\* The Continue button without its disabled attribute.
continueToPreview_NeverDisabled ==
    /\ dialog.isOpen /\ dialog.step = "reason"
    /\ isEarlyReveal(dateNow, 60)
    /\ decryptContent([dialog EXCEPT !.step = "preview"])
    /\ UNCHANGED outsideDialog

\* Continue to Preview, disabled={!earlyRevealReason.trim()}.
continueToPreview ==
    /\ dialog.isOpen /\ dialog.step = "reason"
    /\ isEarlyReveal(dateNow, 60)
    /\ trim(dialog.earlyRevealReason) # ""
    /\ decryptContent([dialog EXCEPT !.step = "preview"])
    /\ UNCHANGED outsideDialog

\* decryptContent after its await of previewCapsule.
afterPreviewCapsule ==
    /\ dialog.isOpen /\ dialog.step = "preview" /\ dialog.awaiting > 0
    /\ calls[dialog.awaiting].pc = "returned"
    /\ LET result == calls[dialog.awaiting].result IN
       dialog' = IF ~result.success \/ result.data = null
                   THEN [dialog EXCEPT !.awaiting = 0,
                            !.error = IF result.error = "" THEN "Failed to decrypt content"
                                      ELSE result.error]
                 ELSE [dialog EXCEPT !.awaiting = 0,
                          !.decryptedContent = result.data.originalData]
    /\ UNCHANGED <<calls, outsideDialog>>

\* Back at the preview step: to the reason step of an early reveal, else onClose.
backFromPreview ==
    /\ dialog.isOpen /\ dialog.step = "preview" /\ dialog.decryptedContent # null
    /\ dialog' = IF isEarlyReveal(dateNow, 60) THEN [dialog EXCEPT !.step = "reason"]
                 ELSE NoDialog
    /\ UNCHANGED <<calls, outsideDialog>>

\* Continue to Reveal, shown with the preview of the decrypted content.
continueToReveal ==
    /\ dialog.isOpen /\ dialog.step = "preview" /\ dialog.decryptedContent # null
    /\ dialog' = [dialog EXCEPT !.step = "confirm"]
    /\ UNCHANGED <<calls, outsideDialog>>

setRevealMessage(text) ==
    /\ dialog.isOpen /\ dialog.step = "confirm"
    /\ dialog' = [dialog EXCEPT !.revealMessage = text]
    /\ UNCHANGED <<calls, outsideDialog>>

\* Back at the confirm step.
backFromConfirm ==
    /\ dialog.isOpen /\ dialog.step = "confirm"
    /\ decryptContent([dialog EXCEPT !.step = "preview"])
    /\ UNCHANGED outsideDialog

finalRevealMessage(revealMessage, earlyRevealReason, early) ==
    LET message == trim(revealMessage)
        final == IF early /\ trim(earlyRevealReason) # ""
                   THEN IF message # ""
                          THEN trim(earlyRevealReason) \o "\n\n" \o message
                        ELSE trim(earlyRevealReason)
                 ELSE message
    IN  IF final = "" THEN "undefined" ELSE final

\* handleReveal up to its await, from the Reveal Early / Reveal Now button of the
\* confirm step.
handleReveal ==
    /\ dialog.isOpen /\ dialog.step = "confirm"
    /\ dialog.address # "" /\ dialog.decryptedContent # null
    /\ invoke(Call("revealCapsule", "dialog", dialog.capsuleId, PageKit, dialog.address, 60,
                   finalRevealMessage(dialog.revealMessage, dialog.earlyRevealReason,
                                      isEarlyReveal(dateNow, 60))))
    /\ dialog' = [dialog EXCEPT !.step = "revealing", !.error = "",
                                !.awaiting = Len(calls) + 1]
    /\ UNCHANGED outsideDialog

\* handleReveal after its await: the complete step and onRevealComplete, with which
\* the page hides the dialog; or the catch block.
afterRevealCapsule ==
    /\ dialog.isOpen /\ dialog.step = "revealing" /\ dialog.awaiting > 0
    /\ calls[dialog.awaiting].pc = "returned"
    /\ LET result == calls[dialog.awaiting].result IN
       dialog' = IF ~result.success \/ result.data = null
                   THEN [dialog EXCEPT !.awaiting = 0, !.step = "confirm",
                            !.error = IF result.error = "" THEN "Failed to reveal capsule"
                                      ELSE result.error]
                 ELSE [dialog EXCEPT !.awaiting = 0, !.step = "complete",
                          !.revealedCapsule = result.data, !.isOpen = FALSE]
    /\ UNCHANGED <<calls, outsideDialog>>

DialogNext ==
    \/ \E props \in DialogProps : openDialog(props.capsuleId, props.address)
    \/ onClose
    \/ \E text \in ReasonTexts : setEarlyRevealReason(text)
    \/ continueToPreview
    \/ afterPreviewCapsule
    \/ backFromPreview
    \/ continueToReveal
    \/ \E text \in MessageTexts : setRevealMessage(text)
    \/ backFromConfirm
    \/ handleReveal
    \/ afterRevealCapsule
    \/ \E i \in 1..Len(calls) : afterGetCapsuleIPFSHash(i)
    \/ \E i \in 1..Len(calls) :
          \E outcome \in (IF calls[i].download = null THEN NetworkOutcomes
                          ELSE {calls[i].download}) : afterDownload(i, outcome)
    \/ \E i \in 1..Len(calls) : afterDecryptCapsuleContent(i)
    \/ addUnlockedCapsulesAsPseudoRevealed
    \/ Tick

\* The reveal page with its dialog, the reveal service under it, and the feed's
\* pseudo-reveal in another tab.
DialogSpec == RevealInit /\ [][DialogNext]_vars

\* -------------------------------------------------------------------- C22
\* A step in which the dialog calls revealService.revealCapsule.
C22_Invoked ==
    /\ Len(calls') = Len(calls) + 1
    /\ calls'[Len(calls')].op = "revealCapsule"

\* revealCapsule is called from the confirm step only, and a dialog opened before
\* the unlock time starts at the reason step.
C22_InvokedAtConfirm ==
    /\ C22_Invoked => dialog.isOpen /\ dialog.step = "confirm"
    /\ (~dialog.isOpen /\ dialog'.isOpen /\ isEarlyReveal(dateNow, 60))
          => dialog'.step = "reason"

\* Before the unlock time the dialog is at the confirm step, or past it, only with
\* a reason that is not blank and with the content the preview decrypted.
C22_ReasonGiven ==
    (/\ dialog.isOpen
     /\ dialog.step \in {"confirm", "revealing"}
     /\ isEarlyReveal(dateNow, 60))
    => /\ trim(dialog.earlyRevealReason) # ""
       /\ dialog.decryptedContent # null

\* The confirm step is entered from the preview step, or from a reveal that
\* failed; the complete step only from a reveal that succeeded.
C22_StepOrder ==
    /\ (dialog'.isOpen /\ dialog'.step = "confirm" /\ dialog.step # "confirm")
          => \/ dialog.step = "preview"
             \/ dialog.step = "revealing" /\ ~calls[dialog.awaiting].result.success
    /\ (dialog.isOpen /\ dialog.step = "revealing" /\ dialog'.step = "complete")
          => calls[dialog.awaiting].result.success
    /\ (dialog.isOpen /\ dialog.step = "revealing" /\ dialog.awaiting > 0
        /\ calls[dialog.awaiting].pc = "returned"
        /\ ~calls[dialog.awaiting].result.success /\ dialog'.isOpen /\ dialog' # dialog)
          => dialog'.step = "confirm" /\ dialog'.error # ""
    /\ (dialog'.step = "complete" /\ dialog.step # "complete")
          => dialog.step = "revealing"

\* C22: an early reveal is explicitly confirmed: the dialog calls
\* revealService.revealCapsule from the confirm step only; opened before the unlock
\* time it starts at the reason step; the confirm step is reached only after a
\* reason that is not empty was entered and the preview step was passed; a reveal
\* that failed brings the dialog back to the confirm step, never to complete.
C22_EarlyRevealConfirmed ==
    []C22_ReasonGiven /\ [][C22_InvokedAtConfirm /\ C22_StepOrder]_vars

\* A dialog opened before the unlock time, taken through reason, preview and
\* confirm, whose reveal failed: it is at the confirm step again with the error.
C22_Witness ==
    /\ dialog.isOpen /\ dialog.step = "confirm" /\ dialog.error # ""
    /\ trim(dialog.earlyRevealReason) # ""
    /\ \E i \in 1..Len(calls) :
          /\ calls[i].op = "revealCapsule" /\ calls[i].caller = "dialog"
          /\ calls[i].pc = "returned" /\ ~calls[i].result.success

\* -------------------------------------------------------------------- C23
\* C23: only the owner of a capsule can unlock and reveal it: a call of
\* unlockCapsule or revealCapsule by an address that is not the owner never
\* changes the status of the capsule.
C23_StatusMovedByOwner ==
    \A capsuleId \in Existing :
        _capsules'[capsuleId].status # _capsules[capsuleId].status =>
            /\ last'.op \in {"unlockCapsule", "revealCapsule"}
            /\ last'.log[3] = _capsules[capsuleId].owner

C23_OnlyOwnerUnlocksAndReveals == [][C23_StatusMovedByOwner]_vars

\* -------------------------------------------------------------------- C24
\* A call of revealService.revealCapsule that started and has not returned.
C24_InFlight(i) == calls[i].op = "revealCapsule" /\ calls[i].pc # "returned"

\* C24: reveal attempts are serialized per capsule id: while a sweep's call of
\* revealService.revealCapsule for an id is in flight, no other call for that id,
\* of another sweep or of a manual reveal, is in flight.
C24_OneInFlightPerId ==
    \A i, j \in 1..Len(calls) :
        (/\ i # j
         /\ calls[i].caller \in Scans
         /\ C24_InFlight(i) /\ C24_InFlight(j))
        => calls[i].capsuleId # calls[j].capsuleId

\* -------------------------------------------------------------------- C25
\* Call i of revealCapsule returns in this step.
C25_Returns(i) ==
    /\ calls'[i].op = "revealCapsule"
    /\ calls'[i].pc = "returned"
    /\ i <= Len(calls) => calls[i].pc # "returned"

\* A call that returns success validated its kit, fetched the content, decrypted
\* it with the kit, found the caller to be the creator of what it decrypted, and
\* stores that; a call that returns failure leaves the storage as it was.
C25_InOrder ==
    \A i \in 1..Len(calls') :
        C25_Returns(i) =>
            IF calls'[i].result.success
              THEN /\ i <= Len(calls)
                   /\ validateRecoveryKit(calls[i].recoveryKit).isValid
                   /\ calls[i].download # null
                   /\ calls[i].download.ok
                   /\ calls[i].decrypted = decryptCapsuleContent(calls[i].download.value,
                                                                 calls[i].recoveryKit)
                   /\ calls[i].decrypted.ok
                   /\ isUserAuthorized(calls[i].decrypted.value, calls[i].userAddress)
                   /\ calls'[i].result.data.originalData = calls[i].decrypted.value
                   /\ getRevealedCapsule(localStorage', calls[i].capsuleId)
                          = calls'[i].result.data
            ELSE localStorage' = localStorage

\* A step of a call changes the storage only when a revealCapsule call returns.
C25_WrittenAtReturn ==
    (calls' # calls /\ localStorage' # localStorage)
        => \E i \in 1..Len(calls') : C25_Returns(i) /\ calls'[i].result.success

\* C25: within one call of revealCapsule the steps are strictly sequential: the
\* record is written to the index only after, in that call, the kit was
\* validated, the content was fetched and decrypted with the kit, and the caller
\* was checked against the creator of the decrypted bundle; when any step fails
\* the result is a failure and nothing is written.
C25_DecryptVerifyPublish == [][C25_InOrder /\ C25_WrittenAtReturn]_vars

\* -------------------------------------------------------------------- C26
\* Kits a user may upload to the reveal page: the kit of capsule 1001, the same
\* kit under the id of another capsule, a kit whose key and iv are one byte long,
\* a kit whose key is no base64 text.
C26_Kits ==
    {PageKit,
     [PageKit EXCEPT !.capsuleId = "1002"],
     [PageKit EXCEPT !.key = arrayBufferToBase64("k"), !.iv = arrayBufferToBase64("i")],
     [PageKit EXCEPT !.key = "not base64!"]}

\* revealCapsule(capsuleId, kit, ...) over this storage goes on past the
\* validation of the kit and the comparison of the ids.
C26_Proceeds(storage, capsuleId, kit) ==
    revealService_revealCapsuleErr(storage, capsuleId, kit)
        \in {"ok", "This capsule has already been revealed"}

\* The key decodes to 32 bytes, the iv to 12, and the kit is the one of the
\* requested capsule.
C26_Structural(capsuleId, kit) ==
    /\ IsBase64(kit.key) /\ byteLength(base64ToArrayBuffer(kit.key)) = 32
    /\ IsBase64(kit.iv) /\ byteLength(base64ToArrayBuffer(kit.iv)) = 12
    /\ kit.capsuleId = capsuleId

\* The ids of the capsules this browser created (Date.now() as a string).
C26_RealIds ==
    {getList(localStorage, "timeCapsules")[k].id :
        k \in 1..Len(getList(localStorage, "timeCapsules"))}

\* C26: revealCapsule proceeds past the validation of the credential only when its
\* key decodes to exactly 32 bytes, its iv to exactly 12 bytes and its capsuleId
\* equals the requested id; the comparison of the ids is never bypassed for the id
\* of a real capsule.
C26_CredentialGate ==
    /\ \A capsuleId \in C26_RealIds, kit \in C26_Kits :
          C26_Proceeds(localStorage, capsuleId, kit) => C26_Structural(capsuleId, kit)
    /\ \A i \in 1..Len(calls) :
          (/\ calls[i].op = "revealCapsule"
           /\ calls[i].capsuleId \in C26_RealIds
           /\ calls[i].pc \notin {"start", "returned"})
          => C26_Structural(calls[i].capsuleId, calls[i].recoveryKit)

\* -------------------------------------------------------------------- C27
\* The stored capsule with this id.
C27_Capsule(capsuleId) ==
    getList(localStorage, "timeCapsules")[findIndex(getList(localStorage, "timeCapsules"),
                                                    capsuleId)]

C27_HeldKits ==
    {getList(localStorage, "capsuleKeys")[k] :
        k \in 1..Len(getList(localStorage, "capsuleKeys"))}

\* A sweep calls revealCapsule only for a capsule whose unlock time has passed,
\* that has no record in the index, with a kit held in 'capsuleKeys'.
C27_Eligible ==
    (Len(calls') = Len(calls) + 1 /\ calls'[Len(calls')].caller \in Scans)
    => LET call == calls'[Len(calls')] IN
       /\ call.op = "revealCapsule"
       /\ dateNow >= C27_Capsule(call.capsuleId).unlockTime * 1000
       /\ call.originalUnlockTime = C27_Capsule(call.capsuleId).unlockTime
       /\ getRevealedCapsule(localStorage, call.capsuleId) = null
       /\ call.recoveryKit \in C27_HeldKits

\* What a sweep's call returns with success is no early reveal, and no sweep has
\* a call for a capsule whose unlock time has not passed.
C27_NeverEarly ==
    \A i \in 1..Len(calls) :
        calls[i].caller \in Scans =>
            /\ dateNow >= C27_Capsule(calls[i].capsuleId).unlockTime * 1000
            /\ (calls[i].pc = "returned" /\ calls[i].result.success)
                  => ~calls[i].result.data.revealMetadata.isEarlyReveal

\* C27: a sweep calls reveal for a capsule only if the unlock time has passed, no
\* record of it is in the index and a stored credential for it is held; every
\* record a sweep produces has isEarlyReveal = false; a capsule whose unlock time
\* has not passed is never revealed by a sweep.
C27_ScannerEligibility == []C27_NeverEarly /\ [][C27_Eligible]_vars

\* A sweep's call stored the record of a capsule after its unlock time.
C27_Witness ==
    \E i \in 1..Len(calls) :
        /\ calls[i].caller \in Scans
        /\ calls[i].pc = "returned" /\ calls[i].result.success
        /\ getRevealedCapsule(localStorage, calls[i].capsuleId) = calls[i].result.data
        /\ ~calls[i].result.data.revealMetadata.isEarlyReveal

\* -------------------------------------------------------------------- C28
\* A second run of checkForUnlockedCapsules straight after a first one, with the
\* same capsules, kits and clock, leaves the storage as the first left it and
\* reports 0; the first reports as many as it added ids to the index.
C28_SecondSweepAddsNothing ==
    \A address, other \in {Wallet1, Wallet2} :
        LET first == checkForUnlockedCapsulesIn(localStorage, dateNow, address)
            second == checkForUnlockedCapsulesIn(first.storage, dateNow, other)
        IN  /\ second.storage = first.storage
            /\ second.returns = 0
            /\ first.returns = Len(getRevealedCapsules(first.storage))
                                   - Len(getRevealedCapsules(localStorage))

\* The call of a sweep that returns success, and so is counted by its sweep, adds
\* an id to the index.
C28_CountedIsAdded ==
    \A i \in 1..Len(calls) :
        (/\ calls[i].caller \in Scans
         /\ calls[i].pc # "returned"
         /\ calls'[i].pc = "returned" /\ calls'[i].result.success)
        => getRevealedCapsule(localStorage, calls[i].capsuleId) = null

\* C28: the scanner is idempotent: a second full sweep, with no new credential, no
\* new capsule and no newly passed unlock time in between, leaves the index exactly
\* as the first left it and reports 0 newly revealed; the count a sweep reports
\* equals the number of ids it added to the index.
C28_ScannerIdempotent == []C28_SecondSweepAddsNothing /\ [][C28_CountedIsAdded]_vars

\* ------------------------------------------- the hook, await by await
\* Creations of the hook that run at once.
MaxCreations == 2

\* A call of useCreateCapsule().createCapsule(params): its arguments with what the
\* browser and the pinning endpoint add, the await it is suspended at (pc), what it
\* holds so far, and keysSeen, the kits 'capsuleKeys' held when its upload returned.
Creation(sender, in) ==
    [op |-> "createCapsule", caller |-> "hook", sender |-> sender, params |-> in.params,
     key |-> in.key, iv |-> in.iv, response |-> in.response, randomId |-> in.randomId,
     pc |-> "encrypt", encryptedData |-> null, ipfsResult |-> null, keysSeen |-> <<>>,
     recoveryKit |-> null, download |-> null]

creations == SelectSeq(calls, LAMBDA c : c.op = "createCapsule")

outsideHook == <<now, ledger, last, created, refWrites, pinataJWT, ipfs, dialog>>

\* createCapsule(params) is called: it runs to the await of cryptoService.encrypt.
startCreateCapsule(sender, in) ==
    /\ Len(creations) < MaxCreations
    /\ calls' = Append(calls, Creation(sender, in))
    /\ UNCHANGED <<localStorage, dateNow, outsideHook>>

\* Step 1 returned; steps 2 and 3 run to the await of ipfsService.uploadCapsule.
afterEncrypt(i) ==
    /\ calls[i].op = "createCapsule" /\ calls[i].pc = "encrypt"
    /\ calls' = [calls EXCEPT ![i].pc = "uploadCapsule",
                              ![i].encryptedData =
                                  encrypt(calls[i].params.content, calls[i].key, calls[i].iv)]
    /\ UNCHANGED <<localStorage, dateNow, outsideHook>>

\* The upload returned, pinned or kept by the fallback in this browser's storage;
\* step 4 runs to the await of crypto.subtle.digest.
afterUploadCapsule(i) ==
    LET call == calls[i]
        capsuleData == [title |-> call.params.title,
                        content |-> <<"base64", call.encryptedData.encryptedContent>>,
                        visibility |-> call.params.visibility]
        upload == uploadToPinata(localStorage, pinataJWT, capsuleData, "capsule.json",
                                 call.response, dateNow, call.randomId)
    IN
    /\ call.op = "createCapsule" /\ call.pc = "uploadCapsule"
    /\ localStorage' = upload.storage
    /\ calls' = [calls EXCEPT ![i].pc = "digest", ![i].ipfsResult = upload.result,
                              ![i].keysSeen = getList(upload.storage, "capsuleKeys")]
    /\ UNCHANGED <<dateNow, outsideHook>>

\* The hook that appends its kit to the kits it saw before the await of digest.
afterDigest_KeysReadBeforeAwait(i) ==
    LET call == calls[i]
        kit == recoveryKit(call.encryptedData, call.ipfsResult)
    IN
    /\ call.op = "createCapsule" /\ call.pc = "digest"
    /\ localStorage' = setItem(localStorage, "capsuleKeys", Append(call.keysSeen, kit))
    /\ calls' = [calls EXCEPT ![i].pc = "returned", ![i].recoveryKit = kit]
    /\ createCapsule(call.sender, InitialProtocolFee, "ENCRYPTED", hashHex(call.params),
                     call.ipfsResult.cid, call.params.unlockDate, call.params.recipients,
                     call.params.visibility = "public")
    /\ UNCHANGED <<dateNow, pinataJWT, ipfs, dialog>>

\* The digest returned; steps 5 and 6 run with no await between them: the hook
\* reads 'capsuleKeys', pushes its kit and writes the list back, then sends the
\* createCapsule transaction with 0.001 ether.
afterDigest(i) ==
    LET call == calls[i]
        kit == recoveryKit(call.encryptedData, call.ipfsResult)
        existingKeys == getList(localStorage, "capsuleKeys")
    IN
    /\ call.op = "createCapsule" /\ call.pc = "digest"
    /\ localStorage' = setItem(localStorage, "capsuleKeys", Append(existingKeys, kit))
    /\ calls' = [calls EXCEPT ![i].pc = "returned", ![i].recoveryKit = kit]
    /\ createCapsule(call.sender, InitialProtocolFee, "ENCRYPTED", hashHex(call.params),
                     call.ipfsResult.cid, call.params.unlockDate, call.params.recipients,
                     call.params.visibility = "public")
    /\ UNCHANGED <<dateNow, pinataJWT, ipfs, dialog>>

\* The browser of the reveal page, with or without kits of earlier capsules and
\* with or without a Pinata token.
HookInit ==
    /\ Init
    /\ \E kits \in StoredKits :
          localStorage =
              fallbackToLocalStorage(
                  [k \in {"timeCapsules", "capsuleKeys"} |->
                      IF k = "timeCapsules" THEN StoredCapsules ELSE kits],
                  encryptedContentBase64, "capsule-content.enc", 1001, "k3x9qa").storage
    /\ dateNow = PageOpenedAt
    /\ calls = <<>>
    /\ pinataJWT \in {"", "jwt"}
    /\ ipfs = NoIpfsCalls
    /\ dialog = NoDialog

HookNext ==
    \/ \E in \in HookInputs : startCreateCapsule(User1, in)
    \/ \E i \in 1..Len(calls) : afterEncrypt(i)
    \/ \E i \in 1..Len(calls) : afterUploadCapsule(i)
    \/ \E i \in 1..Len(calls) : afterDigest(i)
    \/ \E k \in 1..Len(StoredCapsules) :
          scannerReveal("checkAndRevealUnlockedCapsules", k, Wallet1)
    \/ \E i \in 1..Len(calls) : afterGetCapsuleIPFSHash(i)
    \/ \E i \in 1..Len(calls) :
          \E outcome \in (IF calls[i].download = null THEN NetworkOutcomes
                          ELSE {calls[i].download}) : afterDownload(i, outcome)
    \/ \E i \in 1..Len(calls) : afterDecryptCapsuleContent(i)
    \/ addUnlockedCapsulesAsPseudoRevealed
    \/ Tick

\* Creations of the hook and sweeps of the scanner over one browser's storage.
HookSpec == HookInit /\ [][HookNext]_vars

\* -------------------------------------------------------------------- C29
\* C29: writes to 'capsuleKeys' lose no update: however two creations of the hook
\* and a sweep interleave at their awaits, once creations have returned the list
\* holds the kits that were there before, in their order, followed by one kit for
\* each creation that returned, and no step removes or replaces a kit of the list.
C29_Done == {i \in 1..Len(calls) : calls[i].op = "createCapsule" /\ calls[i].pc = "returned"}

C29_Kits == getList(localStorage, "capsuleKeys")

C29_Before == Len(C29_Kits) - Cardinality(C29_Done)

C29_EveryKitKept ==
    /\ C29_Before >= 0
    /\ SubSeq(C29_Kits, 1, C29_Before) \in StoredKits
    /\ \A i \in C29_Done :
          Cardinality({k \in C29_Before + 1..Len(C29_Kits) :
                          C29_Kits[k] = calls[i].recoveryKit})
            = Cardinality({j \in C29_Done : calls[j].recoveryKit = calls[i].recoveryKit})

C29_OnlyAppended ==
    /\ Len(getList(localStorage', "capsuleKeys")) >= Len(C29_Kits)
    /\ SubSeq(getList(localStorage', "capsuleKeys"), 1, Len(C29_Kits)) = C29_Kits

C29_NoLostUpdate == []C29_EveryKitKept /\ [][C29_OnlyAppended]_vars

\* Two creations that both held the same kits when their uploads returned have
\* both returned, while a sweep that read the kits was under way.
C29_Witness ==
    /\ Cardinality(C29_Done) = 2
    /\ \A i \in C29_Done : Len(calls[i].keysSeen) = 2
    /\ Len(C29_Kits) = 4
    /\ \E i \in 1..Len(calls) :
          /\ calls[i].op = "revealCapsule"
          /\ \E j \in C29_Done : j < i
          /\ \E j \in C29_Done : j > i

\* ----------------------------------------- a capsule kept on the network
\* A capsule whose sealed bundle was pinned, so that its address is no local one,
\* with the kit the hook kept for that address.
PinnedCapsules ==
    <<StoredCapsule("1003", "To the future", "open in a minute", 60, "1", "bafkreiaxq")>>

PinnedKits ==
    <<[key |-> arrayBufferToBase64("key-a"), iv |-> arrayBufferToBase64("iv-a"),
       capsuleId |-> "pending", ipfsCid |-> "bafkreiaxq"]>>

\* What the gateways give for the pinned address: nothing yet, or the sealed bundle.
GatewayOutcomes == {Throws("Failed to download from IPFS"), Returns(encryptedContentBase64)}

FetchInit ==
    /\ Init
    /\ localStorage = [k \in {"timeCapsules", "capsuleKeys"} |->
                          IF k = "timeCapsules" THEN PinnedCapsules ELSE PinnedKits]
    /\ dateNow = PageOpenedAt
    /\ calls = <<>>
    /\ pinataJWT = ""
    /\ ipfs = NoIpfsCalls
    /\ dialog = NoDialog

FetchNext ==
    \/ \E userAddress \in {Wallet1, Wallet2} :
          revealService_revealCapsule("1003", [PinnedKits[1] EXCEPT !.capsuleId = "1003"],
                                      userAddress, 60, "undefined")
    \/ \E scan \in Scans, userAddress \in {Wallet1, Wallet2} :
          scannerReveal(scan, 1, userAddress)
    \/ \E i \in 1..Len(calls) : afterGetCapsuleIPFSHash(i)
    \/ \E i \in 1..Len(calls) :
          \E outcome \in (IF calls[i].download = null THEN GatewayOutcomes
                          ELSE {calls[i].download}) : afterDownload(i, outcome)
    \/ \E i \in 1..Len(calls) : afterDecryptCapsuleContent(i)
    \/ \E address \in {Wallet1, Wallet2} : checkForUnlockedCapsules(address)
    \/ addUnlockedCapsulesAsPseudoRevealed
    \/ Tick

\* The reveal page and the sweeps over a capsule whose content is fetched from the
\* network.
FetchSpec == FetchInit /\ [][FetchNext]_vars

\* -------------------------------------------------------------------- C30
\* C30: a reveal that fails only because the content could not be fetched leaves
\* the capsule revealable: when a run of checkForUnlockedCapsules calls
\* revealCapsule for an unlocked capsule and the call fails on the download alone,
\* the capsule has no record in the index after the run, and revealCapsule with the
\* same kit succeeds over the storage the run left once the content is fetched.
C30_Call(scan, capsule, address) ==
    scannerCall(scan, capsule,
                scannerKit(scan, capsule, getList(localStorage, "capsuleKeys")), address)

\* The sweep scan calls revealCapsule for the capsule, and the call fails with the
\* content not fetched and succeeds with it fetched.
C30_FailsOnFetchOnly(scan, capsule, address) ==
    /\ scannerEligible(scan, localStorage, dateNow, capsule)
    /\ ~runRevealCapsule(localStorage, dateNow, C30_Call(scan, capsule, address),
                         Throws("Failed to download from IPFS")).returns
    /\ runRevealCapsule(localStorage, dateNow, C30_Call(scan, capsule, address),
                        Returns(encryptedContentBase64)).returns

C30_RunOfSweeps(address) ==
    /\ \A i \in 1..Len(calls) : calls[i].pc = "returned"
    /\ calls' = calls
    /\ localStorage' = checkForUnlockedCapsulesIn(localStorage, dateNow, address).storage

C30_StillRevealable ==
    \A address \in {Wallet1, Wallet2}, scan \in Scans,
       k \in 1..Len(getList(localStorage, "timeCapsules")) :
       LET capsule == getList(localStorage, "timeCapsules")[k] IN
       C30_RunOfSweeps(address) /\ C30_FailsOnFetchOnly(scan, capsule, address)
         => /\ getRevealedCapsule(localStorage', capsule.id) = null
            /\ runRevealCapsule(localStorage', dateNow, C30_Call(scan, capsule, address),
                                Returns(encryptedContentBase64)).returns

C30_FetchFailureLeavesNoRecord == [][C30_StillRevealable]_vars

====
